---- MODULE Spec2Model ----
(***************************************************************************)
(* Verification model of the arrhythmia inference service core:            *)
(*   core/validator.py          InputValidator                             *)
(*   core/feature_extractor.py  HRVFeatureExtractor and its data classes   *)
(*                                                                         *)
(* Conventions.                                                            *)
(*   Optional[T]   is a sequence of length 0 (None) or 1 (the value).      *)
(*   datetime      is a record [t, aware]: t is the instant in             *)
(*                 milliseconds, aware tells whether tzinfo is set.        *)
(*   durations     are kept in milliseconds; a threshold given in seconds  *)
(*                 is multiplied by MsPerSecond before it is compared.     *)
(*   An exception leaving a call is recorded in the variable raised.       *)
(***************************************************************************)
EXTENDS Integers, Sequences, FiniteSets, TLC

VARIABLES
    validator,          \* the InputValidator object (its six thresholds)
    rr_intervals_ms,    \* argument of the last validate call
    start_timestamp,    \* argument of the last validate call
    end_timestamp,      \* argument of the last validate call
    validation,         \* Optional[ValidationResult] returned by that call
    raised,             \* Optional[str]: exception that left the last call
    extractor,          \* the HRVFeatureExtractor object (its six parameters)
    rr_array,           \* argument of the last extract call
    spectrum,           \* spectrum scipy returned during that call
    hrv,                \* Optional[HRVFeatures] returned by that call
    serialized,         \* Optional: to_array() and to_dict() of the features
    training,           \* Optional[HRVFeatures] of the training extractor
    predictor,          \* the ArrhythmiaPredictor object
    files,              \* the model and metadata files on disk
    loading,            \* Optional: outcome of the last load_predictor call
    model_output,       \* Optional: what xgboost does during the last predict
    prediction,         \* Optional: outcome of the last predict call
    response,           \* Optional: response of the last HTTP request
    last_inference_at,  \* Optional: routes._last_inference_at
    domains,            \* features of the domains a reordered extract has run
    pc                  \* position of the caller, "idle" between calls

vars == <<validator, rr_intervals_ms, start_timestamp, end_timestamp,
          validation, raised, extractor, rr_array, spectrum, hrv,
          serialized, training, predictor, files, loading, model_output,
          prediction, response, last_inference_at, domains, pc>>

None == <<>>
Some(x) == <<x>>

(***************************************************************************)
(* Bounds of the model.                                                    *)
(***************************************************************************)
MaxLen == 4             \* longest enumerated RR sequence of validate
MaxPortLen == 3
MaxDomainLen == 2
MaxArrayLen == 3        \* longest enumerated RR array of extract

(***************************************************************************)
(* config.py: reference defaults of the validator thresholds.              *)
(***************************************************************************)
min_rr_count == 40
max_rr_count == 200
min_rr_value_ms == 200
max_rr_value_ms == 2000
min_window_duration_s == 30
max_window_duration_s == 120

MsPerSecond == 1000
MaxSampleInvalid == 5

\* InputValidator.__init__: stores the six thresholds, checks nothing.
InputValidator(minc, maxc, minv, maxv, minw, maxw) ==
    [min_rr_count |-> minc, max_rr_count |-> maxc,
     min_rr_value_ms |-> minv, max_rr_value_ms |-> maxv,
     min_window_duration_s |-> minw, max_window_duration_s |-> maxw]

\* ValidationResult dataclass; every field but is_valid defaults to None.
ValidationResult(ok, code, msg, details, cleaned, window) ==
    [is_valid |-> ok, error_code |-> code, error_message |-> msg,
     error_details |-> details, cleaned_rr_intervals |-> cleaned,
     window_duration_s |-> window]

\* Variant of _validate_count that also rejects a length equal to a bound.
_validate_count_BoundsExcluded(self, rr) ==
    LET count == Len(rr) IN
    IF count <= self.min_rr_count
    THEN ValidationResult(FALSE, Some("INSUFFICIENT_DATA"),
             Some(<<count, self.min_rr_count>>),
             Some([received_count |-> count,
                   minimum_required |-> self.min_rr_count]),
             None, None)
    ELSE IF count >= self.max_rr_count
    THEN ValidationResult(FALSE, Some("EXCESSIVE_DATA"),
             Some(<<count, self.max_rr_count>>),
             Some([received_count |-> count,
                   maximum_allowed |-> self.max_rr_count]),
             None, None)
    ELSE ValidationResult(TRUE, None, None, None, None, None)

\* InputValidator._validate_count
_validate_count(self, rr) ==
    LET count == Len(rr) IN
    IF count < self.min_rr_count
    THEN ValidationResult(FALSE, Some("INSUFFICIENT_DATA"),
             Some(<<count, self.min_rr_count>>),
             Some([received_count |-> count,
                   minimum_required |-> self.min_rr_count]),
             None, None)
    ELSE IF count > self.max_rr_count
    THEN ValidationResult(FALSE, Some("EXCESSIVE_DATA"),
             Some(<<count, self.max_rr_count>>),
             Some([received_count |-> count,
                   maximum_allowed |-> self.max_rr_count]),
             None, None)
    ELSE ValidationResult(TRUE, None, None, None, None, None)

\* Variant of InRange with the two bounds excluded.
InRange_Exclusive(self, rr) ==
    self.min_rr_value_ms < rr /\ rr < self.max_rr_value_ms

\* Whether the loop of _validate_values keeps the element rr.
InRange(self, rr) ==
    self.min_rr_value_ms <= rr /\ rr <= self.max_rr_value_ms

\* The for loop of _validate_values, from element i on; acc holds the three
\* locals cleaned, invalid_count and invalid_values.
RECURSIVE ValuesLoop(_, _, _, _)
ValuesLoop(self, rr, i, acc) ==
    IF i > Len(rr) THEN acc
    ELSE IF InRange(self, rr[i])
    THEN ValuesLoop(self, rr, i + 1,
             [acc EXCEPT !.cleaned = Append(@, rr[i])])
    ELSE ValuesLoop(self, rr, i + 1,
             [acc EXCEPT !.invalid_count = @ + 1,
                         !.invalid_values =
                             IF Len(@) < MaxSampleInvalid
                             THEN Append(@, rr[i]) ELSE @])

\* Variant of _validate_values that also rejects at exactly 50%.
_validate_values_HalfRejected(self, rr) ==
    LET loop == ValuesLoop(self, rr, 1,
                    [cleaned |-> <<>>, invalid_count |-> 0,
                     invalid_values |-> <<>>])
    IN  IF 2 * loop.invalid_count >= Len(rr)
        THEN ValidationResult(FALSE, Some("INVALID_RR_VALUES"),
                 Some(<<loop.invalid_count, Len(rr),
                        self.min_rr_value_ms, self.max_rr_value_ms>>),
                 Some([invalid_count |-> loop.invalid_count,
                       total_count |-> Len(rr),
                       valid_range_ms |-> <<self.min_rr_value_ms,
                                            self.max_rr_value_ms>>,
                       sample_invalid_values |-> loop.invalid_values]),
                 None, None)
        ELSE ValidationResult(TRUE, None, None, None,
                 Some(loop.cleaned), None)

\* InputValidator._validate_values.  invalid_count > len * 0.5 is exact in
\* floating point for these integers, so it is 2 * invalid_count > len.
_validate_values(self, rr) ==
    LET loop == ValuesLoop(self, rr, 1,
                    [cleaned |-> <<>>, invalid_count |-> 0,
                     invalid_values |-> <<>>])
    IN  IF 2 * loop.invalid_count > Len(rr)
        THEN ValidationResult(FALSE, Some("INVALID_RR_VALUES"),
                 Some(<<loop.invalid_count, Len(rr),
                        self.min_rr_value_ms, self.max_rr_value_ms>>),
                 Some([invalid_count |-> loop.invalid_count,
                       total_count |-> Len(rr),
                       valid_range_ms |-> <<self.min_rr_value_ms,
                                            self.max_rr_value_ms>>,
                       sample_invalid_values |-> loop.invalid_values]),
                 None, None)
        ELSE ValidationResult(TRUE, None, None, None,
                 Some(loop.cleaned), None)

\* datetime subtraction: an aware and a naive datetime cannot be subtracted
\* (TypeError); otherwise the difference of the two instants.
CanSubtract(s, e) == s.aware = e.aware

\* Variant of _validate_window with the two bounds excluded.
_validate_window_Exclusive(self, s, e) ==
    LET duration == e.t - s.t IN
    IF duration <= self.min_window_duration_s * MsPerSecond
    THEN ValidationResult(FALSE, Some("WINDOW_TOO_SHORT"),
             Some(<<duration, self.min_window_duration_s>>),
             Some([window_duration_s |-> duration,
                   minimum_required_s |-> self.min_window_duration_s]),
             None, None)
    ELSE IF duration >= self.max_window_duration_s * MsPerSecond
    THEN ValidationResult(FALSE, Some("WINDOW_TOO_LONG"),
             Some(<<duration, self.max_window_duration_s>>),
             Some([window_duration_s |-> duration,
                   maximum_allowed_s |-> self.max_window_duration_s]),
             None, None)
    ELSE ValidationResult(TRUE, None, None, None, None, Some(duration))

\* InputValidator._validate_window, for two datetimes that can be
\* subtracted; both branches of the tzinfo test compute the same difference.
_validate_window(self, s, e) ==
    LET duration == e.t - s.t IN
    IF duration < self.min_window_duration_s * MsPerSecond
    THEN ValidationResult(FALSE, Some("WINDOW_TOO_SHORT"),
             Some(<<duration, self.min_window_duration_s>>),
             Some([window_duration_s |-> duration,
                   minimum_required_s |-> self.min_window_duration_s]),
             None, None)
    ELSE IF duration > self.max_window_duration_s * MsPerSecond
    THEN ValidationResult(FALSE, Some("WINDOW_TOO_LONG"),
             Some(<<duration, self.max_window_duration_s>>),
             Some([window_duration_s |-> duration,
                   maximum_allowed_s |-> self.max_window_duration_s]),
             None, None)
    ELSE ValidationResult(TRUE, None, None, None, None, Some(duration))

\* Variant of validate without the post-filter sufficiency check.
validate_NoSufficiency(self, rr, s, e) ==
    LET count_result == _validate_count(self, rr) IN
    IF ~count_result.is_valid
    THEN [ret |-> Some(count_result), exc |-> None]
    ELSE
    LET values_result == _validate_values(self, rr) IN
    IF ~values_result.is_valid
    THEN [ret |-> Some(values_result), exc |-> None]
    ELSE
    LET cleaned_rr == values_result.cleaned_rr_intervals[1] IN
    IF ~CanSubtract(s, e)
    THEN [ret |-> None, exc |-> Some("TypeError")]
    ELSE
    LET window_result == _validate_window(self, s, e) IN
    IF ~window_result.is_valid
    THEN [ret |-> Some(window_result), exc |-> None]
    ELSE [ret |-> Some(ValidationResult(TRUE, None, None, None,
                     Some(cleaned_rr), window_result.window_duration_s)),
          exc |-> None]

\* Variant of validate that hands back the result of the window check on
\* success, which carries no cleaned sequence.
validate_ReturnsWindowResult(self, rr, s, e) ==
    LET count_result == _validate_count(self, rr) IN
    IF ~count_result.is_valid
    THEN [ret |-> Some(count_result), exc |-> None]
    ELSE
    LET values_result == _validate_values(self, rr) IN
    IF ~values_result.is_valid
    THEN [ret |-> Some(values_result), exc |-> None]
    ELSE
    LET cleaned_rr == values_result.cleaned_rr_intervals[1] IN
    IF Len(cleaned_rr) < self.min_rr_count
    THEN [ret |-> Some(ValidationResult(FALSE,
                     Some("INSUFFICIENT_VALID_DATA"),
                     Some(<<Len(cleaned_rr), self.min_rr_count>>),
                     Some([original_count |-> Len(rr),
                           valid_count |-> Len(cleaned_rr),
                           minimum_required |-> self.min_rr_count]),
                     None, None)),
          exc |-> None]
    ELSE IF ~CanSubtract(s, e)
    THEN [ret |-> None, exc |-> Some("TypeError")]
    ELSE [ret |-> Some(_validate_window(self, s, e)), exc |-> None]

\* Variant of validate that runs the value check before the count check.
validate_ValuesFirst(self, rr, s, e) ==
    LET values_result == _validate_values(self, rr) IN
    IF ~values_result.is_valid
    THEN [ret |-> Some(values_result), exc |-> None]
    ELSE
    LET count_result == _validate_count(self, rr) IN
    IF ~count_result.is_valid
    THEN [ret |-> Some(count_result), exc |-> None]
    ELSE
    LET cleaned_rr == values_result.cleaned_rr_intervals[1] IN
    IF Len(cleaned_rr) < self.min_rr_count
    THEN [ret |-> Some(ValidationResult(FALSE,
                     Some("INSUFFICIENT_VALID_DATA"),
                     Some(<<Len(cleaned_rr), self.min_rr_count>>),
                     Some([original_count |-> Len(rr),
                           valid_count |-> Len(cleaned_rr),
                           minimum_required |-> self.min_rr_count]),
                     None, None)),
          exc |-> None]
    ELSE IF ~CanSubtract(s, e)
    THEN [ret |-> None, exc |-> Some("TypeError")]
    ELSE
    LET window_result == _validate_window(self, s, e) IN
    IF ~window_result.is_valid
    THEN [ret |-> Some(window_result), exc |-> None]
    ELSE [ret |-> Some(ValidationResult(TRUE, None, None, None,
                     Some(cleaned_rr), window_result.window_duration_s)),
          exc |-> None]

\* InputValidator.validate: [ret |-> Optional result, exc |-> Optional name].
validate(self, rr, s, e) ==
    LET count_result == _validate_count(self, rr) IN
    IF ~count_result.is_valid
    THEN [ret |-> Some(count_result), exc |-> None]
    ELSE
    LET values_result == _validate_values(self, rr) IN
    IF ~values_result.is_valid
    THEN [ret |-> Some(values_result), exc |-> None]
    ELSE
    LET cleaned_rr == values_result.cleaned_rr_intervals[1] IN
    IF Len(cleaned_rr) < self.min_rr_count
    THEN [ret |-> Some(ValidationResult(FALSE,
                     Some("INSUFFICIENT_VALID_DATA"),
                     Some(<<Len(cleaned_rr), self.min_rr_count>>),
                     Some([original_count |-> Len(rr),
                           valid_count |-> Len(cleaned_rr),
                           minimum_required |-> self.min_rr_count]),
                     None, None)),
          exc |-> None]
    ELSE IF ~CanSubtract(s, e)
    THEN [ret |-> None, exc |-> Some("TypeError")]
    ELSE
    LET window_result == _validate_window(self, s, e) IN
    IF ~window_result.is_valid
    THEN [ret |-> Some(window_result), exc |-> None]
    ELSE [ret |-> Some(ValidationResult(TRUE, None, None, None,
                     Some(cleaned_rr), window_result.window_duration_s)),
          exc |-> None]

(***************************************************************************)
(* float64 values of the feature extractor.                                *)
(*                                                                         *)
(* A value is a record [k, n, d]:                                          *)
(*   k = "nan"                  not-a-number                               *)
(*   k = "inf"                  infinity with the sign of n                *)
(*   k = "num"                  the rational n/d, d > 0, in lowest terms   *)
(*   k = "sqrt"                 the irrational square root of n/d > 0      *)
(*   k = "negsqrt"              minus the irrational square root of n/d    *)
(*   k = "neglog"               -ln(n/d) for n/d > 0, n # d                *)
(* The arithmetic is exact: rounding of float64 is not modelled.           *)
(***************************************************************************)
RECURSIVE GCD(_, _)
GCD(a, b) == IF b = 0 THEN a ELSE GCD(b, a % b)
Abs(a) == IF a < 0 THEN 0 - a ELSE a
Sgn(a) == IF a < 0 THEN 0 - 1 ELSE IF a = 0 THEN 0 ELSE 1

NaN == [k |-> "nan", n |-> 0, d |-> 1]
Inf(s) == [k |-> "inf", n |-> s, d |-> 1]
\* The rational n/d (d # 0) in lowest terms.
Num(n, d) ==
    LET g == GCD(Abs(n), Abs(d)) IN
    [k |-> "num", n |-> (Sgn(d) * n) \div g, d |-> Abs(d) \div g]
Zero == Num(0, 1)

\* np.isfinite
isfinite(x) == x.k \in {"num", "sqrt", "negsqrt", "neglog"}
\* np.isnan
isnan(x) == x.k = "nan"

\* Sign of a value that is not NaN.
Sign(x) ==
    CASE x.k = "num" -> Sgn(x.n)
      [] x.k = "inf" -> x.n
      [] x.k = "sqrt" -> 1
      [] x.k = "negsqrt" -> 0 - 1
      [] x.k = "neglog" -> IF x.n < x.d THEN 1 ELSE 0 - 1

\* x + y, x - y, x * y, x / y for float64 values of kind num, inf or nan.
AddF(x, y) ==
    IF isnan(x) \/ isnan(y) THEN NaN
    ELSE IF x.k = "inf" THEN (IF y.k = "inf" /\ y.n # x.n THEN NaN ELSE x)
    ELSE IF y.k = "inf" THEN y
    ELSE LET g == GCD(x.d, y.d) IN
         Num(x.n * (y.d \div g) + y.n * (x.d \div g), x.d * (y.d \div g))
NegF(x) ==
    IF isnan(x) THEN NaN
    ELSE IF x.k = "inf" THEN Inf(0 - x.n)
    ELSE Num(0 - x.n, x.d)
SubF(x, y) == AddF(x, NegF(y))
MulF(x, y) ==
    IF isnan(x) \/ isnan(y) THEN NaN
    ELSE IF x.k = "inf" \/ y.k = "inf"
    THEN (IF Sign(x) * Sign(y) = 0 THEN NaN ELSE Inf(Sign(x) * Sign(y)))
    ELSE LET g1 == GCD(Abs(x.n), y.d)
             g2 == GCD(Abs(y.n), x.d)
         IN  Num((x.n \div g1) * (y.n \div g2),
                 (x.d \div g2) * (y.d \div g1))
\* Division by zero gives an infinity (NaN for 0/0), as numpy does.
DivF(x, y) ==
    IF isnan(x) \/ isnan(y) THEN NaN
    ELSE IF y.k = "inf" THEN (IF x.k = "inf" THEN NaN ELSE Zero)
    ELSE IF x.k = "inf"
    THEN Inf(x.n * (IF y.n < 0 THEN 0 - 1 ELSE 1))
    ELSE IF y.n = 0
    THEN (IF x.n = 0 THEN NaN ELSE Inf(Sgn(x.n)))
    ELSE MulF(x, Num(y.d, y.n))

\* x < y, x <= y, x > y for a value x of kind num, inf or nan and an
\* integer c; every comparison with NaN is false.
LtInt(x, c) ==
    CASE x.k = "nan" -> FALSE
      [] x.k = "inf" -> x.n < 0
      [] x.k = "num" -> x.n < c * x.d
GtInt(x, c) ==
    CASE x.k = "nan" -> FALSE
      [] x.k = "inf" -> x.n > 0
      [] x.k = "num" -> x.n > c * x.d
LeInt(x, c) ==
    CASE x.k = "nan" -> FALSE
      [] x.k = "inf" -> x.n < 0
      [] x.k = "num" -> x.n <= c * x.d

\* Largest k in lo..hi with k * k <= a (lo * lo <= a).
RECURSIVE ISqrtIn(_, _, _)
ISqrtIn(a, lo, hi) ==
    IF lo >= hi THEN lo
    ELSE LET mid == (lo + hi + 1) \div 2 IN
         IF mid * mid <= a THEN ISqrtIn(a, mid, hi)
         ELSE ISqrtIn(a, lo, mid - 1)
ISqrt(a) == ISqrtIn(a, 0, IF a < 46340 THEN a ELSE 46340)
IsSquare(a) == ISqrt(a) * ISqrt(a) = a

\* np.sqrt of a value of kind num, inf or nan.
sqrt(x) ==
    CASE x.k = "nan" -> NaN
      [] x.k = "inf" -> IF x.n > 0 THEN x ELSE NaN
      [] x.k = "num" ->
            IF x.n < 0 THEN NaN
            ELSE IF IsSquare(x.n) /\ IsSquare(x.d)
            THEN Num(ISqrt(x.n), ISqrt(x.d))
            ELSE [k |-> "sqrt", n |-> x.n, d |-> x.d]

\* The square of a finite value of kind num or sqrt, as a rational.
Square(x) == IF x.k = "sqrt" THEN Num(x.n, x.d) ELSE MulF(x, x)

\* s * q and s / q for s of kind num, sqrt or nan (a standard deviation,
\* never negative) and a rational q > 0.
ScaleRoot(s, q) ==
    IF s.k = "sqrt" THEN sqrt(MulF(Num(s.n, s.d), MulF(q, q)))
    ELSE MulF(s, q)

\* s * q and s / q for s of kind num, sqrt or nan and a rational or NaN q
\* of either sign.
ScaleSigned(s, q) ==
    IF isnan(s) \/ isnan(q) THEN NaN
    ELSE IF s.k = "sqrt" /\ Sign(q) = 0 THEN Zero
    ELSE IF s.k = "sqrt" /\ Sign(q) < 0
    THEN (IF ScaleRoot(s, NegF(q)).k = "sqrt"
          THEN [ScaleRoot(s, NegF(q)) EXCEPT !.k = "negsqrt"]
          ELSE NegF(ScaleRoot(s, NegF(q))))
    ELSE ScaleRoot(s, q)

\* The array as float64 values.
AsFloats(arr) == [i \in 1..Len(arr) |-> Num(arr[i], 1)]

\* Sum of xs[lo..hi], by halves.
RECURSIVE SumRange(_, _, _)
SumRange(xs, lo, hi) ==
    IF lo > hi THEN Zero
    ELSE IF lo = hi THEN xs[lo]
    ELSE LET mid == (lo + hi) \div 2 IN
         AddF(SumRange(xs, lo, mid), SumRange(xs, mid + 1, hi))
\* np.sum
sum(xs) == SumRange(xs, 1, Len(xs))

\* np.mean: NaN for an empty array.
mean(xs) ==
    IF Len(xs) = 0 THEN NaN ELSE DivF(sum(xs), Num(Len(xs), 1))

\* np.std(xs, ddof=1): the mean of the squared deviations with divisor
\* n - 1; NaN for fewer than two elements and when an element is not finite.
SquaredDeviations(xs, mu) ==
    [i \in 1..Len(xs) |-> MulF(SubF(xs[i], mu), SubF(xs[i], mu))]
std(xs) ==
    IF Len(xs) < 2 THEN NaN
    ELSE sqrt(DivF(sum(SquaredDeviations(xs, mean(xs))),
                   Num(Len(xs) - 1, 1)))

(***************************************************************************)
(* core/feature_extractor.py: data classes.                                *)
(***************************************************************************)
TimeDomainFeatures(mean_rr, sdnn, rmssd, pnn50, pnn20, mean_hr, std_hr, cv_rr, num_intervals, is_valid) ==
    [mean_rr |-> mean_rr, sdnn |-> sdnn, rmssd |-> rmssd, pnn50 |-> pnn50,
     pnn20 |-> pnn20, mean_hr |-> mean_hr, std_hr |-> std_hr,
     cv_rr |-> cv_rr, num_intervals |-> num_intervals, is_valid |-> is_valid]

\* TimeDomainFeatures.to_dict
td_to_dict(self) ==
    [mean_rr |-> self.mean_rr, sdnn |-> self.sdnn, rmssd |-> self.rmssd,
     pnn50 |-> self.pnn50, pnn20 |-> self.pnn20, mean_hr |-> self.mean_hr,
     std_hr |-> self.std_hr, cv_rr |-> self.cv_rr]

\* Variant of to_array with pnn20 and pnn50 in each other's place.
td_to_array_Swapped(self) ==
    <<self.mean_rr, self.sdnn, self.rmssd, self.pnn20,
      self.pnn50, self.mean_hr, self.std_hr, self.cv_rr>>

\* TimeDomainFeatures.to_array
td_to_array(self) ==
    <<self.mean_rr, self.sdnn, self.rmssd, self.pnn50,
      self.pnn20, self.mean_hr, self.std_hr, self.cv_rr>>

FrequencyDomainFeatures(lf_power, hf_power, lf_hf_ratio, total_power, lf_nu, hf_nu, num_intervals, is_valid) ==
    [lf_power |-> lf_power, hf_power |-> hf_power,
     lf_hf_ratio |-> lf_hf_ratio, total_power |-> total_power,
     lf_nu |-> lf_nu, hf_nu |-> hf_nu,
     num_intervals |-> num_intervals, is_valid |-> is_valid]

\* FrequencyDomainFeatures.to_dict
fd_to_dict(self) ==
    [lf_power |-> self.lf_power, hf_power |-> self.hf_power,
     lf_hf_ratio |-> self.lf_hf_ratio, total_power |-> self.total_power,
     lf_nu |-> self.lf_nu, hf_nu |-> self.hf_nu]

\* FrequencyDomainFeatures.to_array
fd_to_array(self) ==
    <<self.lf_power, self.hf_power, self.lf_hf_ratio,
      self.total_power, self.lf_nu, self.hf_nu>>

NonlinearFeatures(sample_entropy, num_intervals, is_valid) ==
    [sample_entropy |-> sample_entropy, num_intervals |-> num_intervals,
     is_valid |-> is_valid]

\* NonlinearFeatures.to_dict
nl_to_dict(self) == [sample_entropy |-> self.sample_entropy]

\* NonlinearFeatures.to_array
nl_to_array(self) == <<self.sample_entropy>>

HRVFeatures(time_domain, frequency_domain, nonlinear, num_intervals, is_valid, invalid_domains) ==
    [time_domain |-> time_domain, frequency_domain |-> frequency_domain,
     nonlinear |-> nonlinear, num_intervals |-> num_intervals,
     is_valid |-> is_valid, invalid_domains |-> invalid_domains]

\* dict.update: the entries of upd replace or extend those of dict.
update(dict, upd) == upd @@ dict

\* HRVFeatures.to_dict
to_dict(self) ==
    update(update(td_to_dict(self.time_domain),
                  fd_to_dict(self.frequency_domain)),
           nl_to_dict(self.nonlinear))

\* HRVFeatures.to_array
to_array(self) ==
    td_to_array(self.time_domain) \o fd_to_array(self.frequency_domain)
        \o nl_to_array(self.nonlinear)

\* HRVFeatureExtractor.FEATURE_NAMES
FEATURE_NAMES ==
    <<"mean_rr", "sdnn", "rmssd", "pnn50",
      "pnn20", "mean_hr", "std_hr", "cv_rr",
      "lf_power", "hf_power", "lf_hf_ratio",
      "total_power", "lf_nu", "hf_nu",
      "sample_entropy">>

\* HRVFeatureExtractor.LF_BAND and HF_BAND, in Hz.
LF_BAND == <<Num(4, 100), Num(15, 100)>>
HF_BAND == <<Num(15, 100), Num(40, 100)>>

\* HRVFeatureExtractor.__init__ defaults.
td_min_intervals == 10
fd_resample_rate == 4
fd_min_intervals == 20
nl_m == 2
nl_r_factor == Num(2, 10)
nl_min_intervals == 30

\* HRVFeatureExtractor.__init__: stores the six parameters.
HRVFeatureExtractor(tdmin, rate, fdmin, m, rfactor, nlmin) ==
    [td_min_intervals |-> tdmin, fd_resample_rate |-> rate,
     fd_min_intervals |-> fdmin, nl_m |-> m, nl_r_factor |-> rfactor,
     nl_min_intervals |-> nlmin]

(***************************************************************************)
(* Time domain.                                                            *)
(***************************************************************************)
\* HRVFeatureExtractor._invalid_time_domain
_invalid_time_domain(n) ==
    TimeDomainFeatures(NaN, NaN, NaN, NaN, NaN, NaN, NaN, NaN, n, FALSE)

\* Variant of _validate_time_domain that refuses a mean heart rate of
\* exactly 300 bpm and a mean interval of exactly 2000 ms.
_validate_time_domain_StrictLimits(f) ==
    IF \E x \in {f.mean_rr, f.sdnn, f.rmssd, f.pnn50, f.pnn20, f.mean_hr,
                 f.std_hr, f.cv_rr} : ~isfinite(x)
    THEN FALSE
    ELSE /\ GtInt(f.mean_rr, 0) /\ LtInt(f.mean_rr, 2000)
         /\ GtInt(f.mean_hr, 0) /\ LtInt(f.mean_hr, 300)
         /\ Sign(f.sdnn) >= 0 /\ Sign(f.rmssd) >= 0
         /\ ~LtInt(f.pnn50, 0) /\ ~GtInt(f.pnn50, 100)

\* Variant of _validate_time_domain with the heart-rate limit at 200 bpm.
_validate_time_domain_LowerRateLimit(f) ==
    LET values == td_to_array(f) IN
    IF \E i \in 1..Len(values) : ~isfinite(values[i]) THEN FALSE
    ELSE IF LeInt(f.mean_rr, 0) \/ GtInt(f.mean_rr, 3000) THEN FALSE
    ELSE IF LeInt(f.mean_hr, 0) \/ GtInt(f.mean_hr, 200) THEN FALSE
    ELSE IF Sign(f.sdnn) < 0 \/ Sign(f.rmssd) < 0 THEN FALSE
    ELSE IF LtInt(f.pnn50, 0) \/ GtInt(f.pnn50, 100) THEN FALSE
    ELSE TRUE

\* HRVFeatureExtractor._validate_time_domain
_validate_time_domain(f) ==
    LET values == td_to_array(f) IN
    IF \E i \in 1..Len(values) : ~isfinite(values[i]) THEN FALSE
    ELSE IF LeInt(f.mean_rr, 0) \/ GtInt(f.mean_rr, 3000) THEN FALSE
    ELSE IF LeInt(f.mean_hr, 0) \/ GtInt(f.mean_hr, 300) THEN FALSE
    ELSE IF Sign(f.sdnn) < 0 \/ Sign(f.rmssd) < 0 THEN FALSE
    ELSE IF LtInt(f.pnn50, 0) \/ GtInt(f.pnn50, 100) THEN FALSE
    ELSE TRUE

\* np.diff
diff(xs) == [i \in 1..(Len(xs) - 1) |-> SubF(xs[i + 1], xs[i])]

\* np.sum(np.abs(d) > x) / len(d) * 100
PercentAbove(d, x) ==
    Num(100 * Cardinality({i \in 1..Len(d) :
                              GtInt(d[i], x) \/ LtInt(d[i], 0 - x)}),
        Len(d))

\* Variant of the closing check that returns the all-NaN features when the
\* validation fails.
_extract_time_domain_validated_Blanked(features) ==
    IF ~_validate_time_domain(features)
    THEN _invalid_time_domain(features.num_intervals)
    ELSE features

\* The check that closes the try block of _extract_time_domain: features
\* that fail _validate_time_domain keep their values and lose is_valid.
_extract_time_domain_validated(features) ==
    IF ~_validate_time_domain(features)
    THEN TimeDomainFeatures(features.mean_rr, features.sdnn,
             features.rmssd, features.pnn50, features.pnn20,
             features.mean_hr, features.std_hr, features.cv_rr,
             features.num_intervals, FALSE)
    ELSE features

\* The features of _extract_time_domain from the mean, the standard
\* deviation, the successive differences and the heart rates.
_extract_time_domain_features(n, mean_rr, sdnn, d, hr_bpm) ==
    TimeDomainFeatures(
        mean_rr,
        sdnn,
        sqrt(mean([i \in 1..Len(d) |-> MulF(d[i], d[i])])),
        IF Len(d) > 0 THEN PercentAbove(d, 50) ELSE Zero,
        IF Len(d) > 0 THEN PercentAbove(d, 20) ELSE Zero,
        mean(hr_bpm),
        std(hr_bpm),
        IF GtInt(mean_rr, 0)
        THEN ScaleRoot(sdnn, DivF(Num(100, 1), mean_rr)) ELSE Zero,
        n, TRUE)

\* The try block of _extract_time_domain on the float64 array xs.  None of
\* the numpy calls raises for a numeric array, so the except branch is
\* never taken.
_extract_time_domain_try(xs) ==
    _extract_time_domain_validated(
        _extract_time_domain_features(
            Len(xs), mean(xs), std(xs), diff(xs),
            [i \in 1..Len(xs) |-> DivF(Num(60000, 1), xs[i])]))

\* Variant of _extract_time_domain that also refuses exactly
\* td_min_intervals intervals.
_extract_time_domain_MinExcluded(self, rr_ms) ==
    IF Len(rr_ms) <= self.td_min_intervals
    THEN _invalid_time_domain(Len(rr_ms))
    ELSE _extract_time_domain_try(AsFloats(rr_ms))

\* HRVFeatureExtractor._extract_time_domain
_extract_time_domain(self, rr_ms) ==
    IF Len(rr_ms) < self.td_min_intervals
    THEN _invalid_time_domain(Len(rr_ms))
    ELSE _extract_time_domain_try(AsFloats(rr_ms))

(***************************************************************************)
(* Frequency domain.                                                       *)
(*                                                                         *)
(* Times are kept in milliseconds.  scipy's interpolation and Welch        *)
(* estimate are library code: of the interpolation the model keeps the     *)
(* inputs it refuses and the number of samples it returns; of the Welch    *)
(* estimate it keeps the frequency grid, and takes the spectrum from a     *)
(* small family of spectra (the parameter shape).                          *)
(***************************************************************************)
MinSamples == 10
MinSegment == 16
CubicOrder == 3

\* x <= y for two rationals.
LeF(x, y) == x.n * y.d <= y.n * x.d

\* HRVFeatureExtractor._invalid_frequency_domain
_invalid_frequency_domain(n) ==
    FrequencyDomainFeatures(NaN, NaN, NaN, NaN, NaN, NaN, n, FALSE)

\* Variant of _validate_frequency_domain that also asks for a defined
\* LF/HF ratio.
_validate_frequency_domain_RatioRequired(f) ==
    IF ~isfinite(f.lf_power) \/ ~isfinite(f.hf_power) THEN FALSE
    ELSE IF Sign(f.lf_power) < 0 \/ Sign(f.hf_power) < 0 THEN FALSE
    ELSE isfinite(f.lf_hf_ratio)

\* HRVFeatureExtractor._validate_frequency_domain
_validate_frequency_domain(f) ==
    IF ~isfinite(f.lf_power) \/ ~isfinite(f.hf_power) THEN FALSE
    ELSE IF Sign(f.lf_power) < 0 \/ Sign(f.hf_power) < 0 THEN FALSE
    ELSE TRUE

\* np.cumsum(rr_ms), then np.insert(.., 0, 0)[:-1]: the time at which
\* interval i starts, t[1] = 0 and t[i] = t[i-1] + rr_ms[i-1].
TimeAxis(rr_ms) ==
    [i \in 1..Len(rr_ms) |->
        sum([j \in 1..(i - 1) |-> Num(rr_ms[j], 1)]).n]

\* interpolate.interp1d(kind='cubic') raises ValueError for fewer than four
\* points and for repeated abscissae.
InterpRaises(time_ms) ==
    \/ Len(time_ms) <= CubicOrder
    \/ \E i, j \in 1..Len(time_ms) : i # j /\ time_ms[i] = time_ms[j]

\* int(x) for the rational a / b, b > 0: truncation towards zero.
Trunc(a, b) == IF a >= 0 THEN a \div b ELSE 0 - ((0 - a) \div b)

\* HRVFeatureExtractor._interpolate_rr: the number of uniform samples,
\* or -1 when interp1d or np.linspace raises.
_interpolate_rr(self, rr_ms, time_ms) ==
    IF InterpRaises(time_ms) THEN 0 - 1
    ELSE LET duration == time_ms[Len(time_ms)]
             n_samples == Trunc(duration * self.fd_resample_rate,
                                MsPerSecond)
         IN  IF n_samples < 0 THEN 0 - 1 ELSE n_samples

\* np.linspace(0, stop, num) for num >= 0: num evenly spaced points from 0
\* to stop, both ends included.
linspace(stop, num) ==
    [k \in 1..num |-> IF num = 1 THEN Zero ELSE Num((k - 1) * stop, num - 1)]

\* t_uniform of _interpolate_rr, in milliseconds, when nothing raises.
t_uniform(self, time_ms) ==
    linspace(time_ms[Len(time_ms)],
             Trunc(time_ms[Len(time_ms)] * self.fd_resample_rate, MsPerSecond))

\* Spectra the Welch estimate is drawn from, as a function of the bin k:
\* all zero (what linear detrending leaves of a constant signal), flat,
\* rising and falling.
PSDShapes == {"zero", "flat", "rising", "falling"}
PSDValue(shape, k, nbins) ==
    CASE shape = "zero" -> Zero
      [] shape = "flat" -> Num(1, 1)
      [] shape = "rising" -> Num(k, 1)
      [] shape = "falling" -> Num(nbins - k, 1)

\* HRVFeatureExtractor._compute_psd: signal.welch shortens nperseg to the
\* length of the signal; the bins are k * fs / nperseg, k = 0..nperseg // 2.
_compute_psd(self, len_interp, shape) ==
    LET wanted == IF MinSegment > len_interp \div 2
                  THEN MinSegment ELSE len_interp \div 2
        nperseg == IF wanted > len_interp THEN len_interp ELSE wanted
        nbins == nperseg \div 2 + 1
    IN  [freqs |-> [i \in 1..nbins |->
                       Num((i - 1) * self.fd_resample_rate, nperseg)],
         psd |-> [i \in 1..nbins |-> PSDValue(shape, i - 1, nbins)]]

\* np.trapezoid(y, x)
trapezoid(y, x) ==
    sum([i \in 1..(Len(x) - 1) |->
            MulF(SubF(x[i + 1], x[i]),
                 DivF(AddF(y[i + 1], y[i]), Num(2, 1)))])

\* Variant of the selection with the upper edge of the band left out.
BandIdx_UpperOpen(freqs, band) ==
    {i \in 1..Len(freqs) :
        LeF(band[1], freqs[i]) /\ LeF(freqs[i], band[2]) /\ freqs[i] # band[2]}

\* The bins selected by freqs >= band[0] and freqs <= band[1].
BandIdx(freqs, band) ==
    {i \in 1..Len(freqs) : LeF(band[1], freqs[i]) /\ LeF(freqs[i], band[2])}

\* xs[idx] for a boolean mask: the selected elements in order.
Masked(xs, idx) ==
    [k \in 1..Cardinality(idx) |->
        xs[CHOOSE i \in idx : Cardinality({j \in idx : j <= i}) = k]]

\* HRVFeatureExtractor._band_power
_band_power(freqs, psd, band) ==
    LET idx == BandIdx(freqs, band) IN
    IF idx = {} THEN Zero
    ELSE trapezoid(Masked(psd, idx), Masked(freqs, idx))

\* The check that closes the try block of _extract_frequency_domain.
_extract_frequency_domain_validated(features) ==
    IF ~_validate_frequency_domain(features)
    THEN FrequencyDomainFeatures(features.lf_power, features.hf_power,
             features.lf_hf_ratio, features.total_power,
             features.lf_nu, features.hf_nu, features.num_intervals, FALSE)
    ELSE features

\* The features of _extract_frequency_domain from the two band powers.
_extract_frequency_domain_features(n, lf_power, hf_power, total_power) ==
    FrequencyDomainFeatures(
        lf_power,
        hf_power,
        IF GtInt(hf_power, 0) THEN DivF(lf_power, hf_power) ELSE NaN,
        total_power,
        IF GtInt(total_power, 0)
        THEN MulF(DivF(lf_power, total_power), Num(100, 1)) ELSE NaN,
        IF GtInt(total_power, 0)
        THEN MulF(DivF(hf_power, total_power), Num(100, 1)) ELSE NaN,
        n, TRUE)

\* The band powers of _extract_frequency_domain and what follows them.
_extract_frequency_domain_bands(n, lf_power, hf_power) ==
    _extract_frequency_domain_validated(
        _extract_frequency_domain_features(
            n, lf_power, hf_power, AddF(lf_power, hf_power)))

\* The try block of _extract_frequency_domain from the number of
\* interpolated samples on (-1: the interpolation raised).  An exception
\* is caught and gives the invalid features.
_extract_frequency_domain_try(self, n, len_interp, shape) ==
    IF len_interp < 0 THEN _invalid_frequency_domain(n)
    ELSE IF len_interp < MinSamples THEN _invalid_frequency_domain(n)
    ELSE LET welch == _compute_psd(self, len_interp, shape) IN
         _extract_frequency_domain_bands(
             n,
             _band_power(welch.freqs, welch.psd, LF_BAND),
             _band_power(welch.freqs, welch.psd, HF_BAND))

\* HRVFeatureExtractor._extract_frequency_domain
_extract_frequency_domain(self, rr_ms, shape) ==
    IF Len(rr_ms) < self.fd_min_intervals
    THEN _invalid_frequency_domain(Len(rr_ms))
    ELSE _extract_frequency_domain_try(
             self, Len(rr_ms),
             _interpolate_rr(self, rr_ms, TimeAxis(rr_ms)), shape)

(***************************************************************************)
(* Nonlinear domain.                                                       *)
(***************************************************************************)
\* HRVFeatureExtractor._invalid_nonlinear
_invalid_nonlinear(n) == NonlinearFeatures(NaN, n, FALSE)

\* HRVFeatureExtractor._validate_nonlinear
_validate_nonlinear(f) ==
    IF ~isfinite(f.sample_entropy) THEN FALSE
    ELSE IF Sign(f.sample_entropy) < 0 THEN FALSE
    ELSE TRUE

\* Variant of the distance that takes the smallest per-position difference.
RECURSIVE Chebyshev_Minimum(_, _, _, _)
Chebyshev_Minimum(signal_data, i, j, m) ==
    IF m = 0 THEN 0
    ELSE LET rest == Chebyshev_Minimum(signal_data, i, j, m - 1)
             here == Abs(signal_data[i + m] - signal_data[j + m])
         IN  IF m = 1 \/ here < rest THEN here ELSE rest

\* np.max(np.abs(templates[i] - templates[j])) for the templates of length
\* m that start at the 0-based offsets i and j.
RECURSIVE Chebyshev(_, _, _, _)
Chebyshev(signal_data, i, j, m) ==
    IF m = 0 THEN 0
    ELSE LET rest == Chebyshev(signal_data, i, j, m - 1)
             here == Abs(signal_data[i + m] - signal_data[j + m])
         IN  IF here > rest THEN here ELSE rest

\* dist <= r for an integer dist >= 0 and a tolerance r >= 0 or NaN.
WithinTolerance(dist, r) ==
    IF ~isfinite(r) THEN FALSE
    ELSE LET r2 == Square(r) IN dist * dist <= r2.n \div r2.d

\* Variant of _count_matches with a template at every offset i with
\* i + m <= N.
_count_matches_AllOffsets(signal_data, m, r) ==
    LET N == Len(signal_data)
        ntemplates == IF N - m + 1 > 0 THEN N - m + 1 ELSE 0
    IN  Cardinality({p \in (0..(ntemplates - 1)) \X (0..(ntemplates - 1)) :
            /\ p[1] < p[2]
            /\ WithinTolerance(Chebyshev(signal_data, p[1], p[2], m), r)})

\* HRVFeatureExtractor._count_matches: range(N - m) templates, every pair
\* i < j counted once.
_count_matches(signal_data, m, r) ==
    LET N == Len(signal_data)
        ntemplates == IF N - m > 0 THEN N - m ELSE 0
    IN  Cardinality({p \in (0..(ntemplates - 1)) \X (0..(ntemplates - 1)) :
            /\ p[1] < p[2]
            /\ WithinTolerance(Chebyshev(signal_data, p[1], p[2], m), r)})

\* Variant of the ratio that smooths a zero count of A by adding one to
\* both counts.
_sample_entropy_ratio_Smoothed(A, B) ==
    IF B = 0 THEN NaN
    ELSE IF A = 0 THEN [k |-> "neglog", n |-> 1, d |-> B + 1]
    ELSE IF A = B THEN Zero
    ELSE [k |-> "neglog", n |-> A \div GCD(A, B), d |-> B \div GCD(A, B)]

\* -np.log(A / B) of _sample_entropy, NaN when a count is zero.
_sample_entropy_ratio(A, B) ==
    IF A = 0 \/ B = 0 THEN NaN
    ELSE IF A = B THEN Zero
    ELSE [k |-> "neglog", n |-> A \div GCD(A, B), d |-> B \div GCD(A, B)]

\* Variant of _sample_entropy_within without the case r = 0.
_sample_entropy_within_NoZeroCase(signal_data, m, r) ==
    _sample_entropy_ratio(_count_matches(signal_data, m + 1, r),
                          _count_matches(signal_data, m, r))

\* _sample_entropy once the tolerance r is known.
_sample_entropy_within(signal_data, m, r) ==
    IF r = Zero THEN Zero
    ELSE _sample_entropy_ratio(_count_matches(signal_data, m + 1, r),
                               _count_matches(signal_data, m, r))

\* HRVFeatureExtractor._sample_entropy
_sample_entropy(signal_data, m, r_factor) ==
    _sample_entropy_within(
        signal_data, m, ScaleRoot(std(AsFloats(signal_data)), r_factor))

\* The check that closes the try block of _extract_nonlinear.
_extract_nonlinear_validated(features) ==
    IF ~_validate_nonlinear(features)
    THEN NonlinearFeatures(features.sample_entropy, features.num_intervals,
                           FALSE)
    ELSE features

\* HRVFeatureExtractor._extract_nonlinear.  No call of the try block raises
\* for a numeric array and m >= 1.
_extract_nonlinear(self, rr_ms) ==
    IF Len(rr_ms) < self.nl_min_intervals
    THEN _invalid_nonlinear(Len(rr_ms))
    ELSE _extract_nonlinear_validated(
             NonlinearFeatures(
                 _sample_entropy(rr_ms, self.nl_m, self.nl_r_factor),
                 Len(rr_ms), TRUE))

(***************************************************************************)
(* Aggregation.                                                            *)
(***************************************************************************)
\* Variant of extract_result whose overall validity asks for all three
\* domains.
extract_result_AllDomains(n, td_features, fd_features, nl_features) ==
    LET invalid1 == IF ~td_features.is_valid
                    THEN <<"time_domain">> ELSE <<>>
        invalid2 == IF ~fd_features.is_valid
                    THEN Append(invalid1, "frequency_domain") ELSE invalid1
        invalid_domains == IF ~nl_features.is_valid
                           THEN Append(invalid2, "nonlinear") ELSE invalid2
        is_valid == /\ td_features.is_valid /\ fd_features.is_valid
                    /\ nl_features.is_valid
    IN  HRVFeatures(td_features, fd_features, nl_features, n, is_valid,
                    invalid_domains)

\* What extract does with the features of the three domains: the list of
\* invalid domains, the overall validity and the result.
extract_result(n, td_features, fd_features, nl_features) ==
    LET invalid1 == IF ~td_features.is_valid
                    THEN <<"time_domain">> ELSE <<>>
        invalid2 == IF ~fd_features.is_valid
                    THEN Append(invalid1, "frequency_domain") ELSE invalid1
        invalid_domains == IF ~nl_features.is_valid
                           THEN Append(invalid2, "nonlinear") ELSE invalid2
        is_valid == td_features.is_valid
    IN  HRVFeatures(td_features, fd_features, nl_features, n, is_valid,
                    invalid_domains)

\* The array rr_ms after a domain extractor has run on it.  The extractors
\* read it (np.mean, np.std, np.diff, np.cumsum, the slices of the
\* templates and interp1d return new arrays) and assign to none of its
\* elements.
_extract_time_domain_leaves(rr_ms) == rr_ms
\* Variant in which np.cumsum writes its result into rr_ms.
_extract_frequency_domain_leaves_InPlace(rr_ms) ==
    [i \in 1..Len(rr_ms) |-> sum([j \in 1..i |-> Num(rr_ms[j], 1)]).n]
_extract_frequency_domain_leaves(rr_ms) == rr_ms
_extract_nonlinear_leaves(rr_ms) == rr_ms

\* HRVFeatureExtractor.extract
extract(self, rr_ms, shape) ==
    extract_result(Len(rr_ms),
                   _extract_time_domain(self, rr_ms),
                   _extract_frequency_domain(self, rr_ms, shape),
                   _extract_nonlinear(self, rr_ms))

(***************************************************************************)
(* The training codebase: arrhythmia_risk_model/src/features.  Its three   *)
(* extractors are separate classes, and the unified extractor holds one of *)
(* each.  The data classes have the fields of the inference service's.     *)
(***************************************************************************)
\* TimeDomainExtractor.__init__
TimeDomainExtractor(min_intervals) == [min_intervals |-> min_intervals]

\* TimeDomainExtractor._compute_mean_rr
TimeDomainExtractor_compute_mean_rr(xs) == mean(xs)

\* TimeDomainExtractor._compute_sdnn
TimeDomainExtractor_compute_sdnn(xs) == std(xs)

\* TimeDomainExtractor._compute_rmssd
TimeDomainExtractor_compute_rmssd(d) ==
    sqrt(mean([i \in 1..Len(d) |-> MulF(d[i], d[i])]))

\* TimeDomainExtractor._compute_pnnX
TimeDomainExtractor_compute_pnnX(d, threshold_ms) ==
    IF Len(d) = 0 THEN Zero ELSE PercentAbove(d, threshold_ms)

\* The heart rates 60000.0 / rr_ms of _compute_mean_hr and _compute_std_hr.
TimeDomainExtractor_hr_bpm(xs) ==
    [i \in 1..Len(xs) |-> DivF(Num(60000, 1), xs[i])]

\* TimeDomainExtractor._compute_mean_hr
TimeDomainExtractor_compute_mean_hr(xs) ==
    mean(TimeDomainExtractor_hr_bpm(xs))

\* TimeDomainExtractor._compute_std_hr
TimeDomainExtractor_compute_std_hr(xs) ==
    std(TimeDomainExtractor_hr_bpm(xs))

\* The result of _compute_cv_rr from the mean and the standard deviation:
\* 0.0 only for a mean equal to zero.
TimeDomainExtractor_cv_rr(mean_rr, sdnn) ==
    IF mean_rr = Zero THEN Zero
    ELSE ScaleSigned(sdnn, DivF(Num(100, 1), mean_rr))

\* TimeDomainExtractor._compute_cv_rr
TimeDomainExtractor_compute_cv_rr(xs) ==
    TimeDomainExtractor_cv_rr(mean(xs), std(xs))

\* TimeDomainExtractor._validate_features
TimeDomainExtractor_validate_features(features) ==
    IF \E i \in 1..Len(td_to_array(features)) :
           ~isfinite(td_to_array(features)[i]) THEN FALSE
    ELSE IF LeInt(features.mean_rr, 0) \/ GtInt(features.mean_rr, 3000)
    THEN FALSE
    ELSE IF LeInt(features.mean_hr, 0) \/ GtInt(features.mean_hr, 300)
    THEN FALSE
    ELSE IF Sign(features.sdnn) < 0 THEN FALSE
    ELSE IF Sign(features.rmssd) < 0 THEN FALSE
    ELSE IF LtInt(features.pnn50, 0) \/ GtInt(features.pnn50, 100)
    THEN FALSE
    ELSE TRUE

\* TimeDomainExtractor._create_invalid_features
TimeDomainExtractor_create_invalid_features(n) ==
    TimeDomainFeatures(NaN, NaN, NaN, NaN, NaN, NaN, NaN, NaN, n, FALSE)

\* The end of the try block of TimeDomainExtractor.extract:
\* features.is_valid = False when the validation fails.
TimeDomainExtractor_validated(features) ==
    IF ~TimeDomainExtractor_validate_features(features)
    THEN [features EXCEPT !.is_valid = FALSE]
    ELSE features

\* TimeDomainExtractor.extract
TimeDomainExtractor_extract(self, rr_ms) ==
    IF Len(rr_ms) < self.min_intervals
    THEN TimeDomainExtractor_create_invalid_features(Len(rr_ms))
    ELSE TimeDomainExtractor_validated(
             TimeDomainFeatures(
                 TimeDomainExtractor_compute_mean_rr(AsFloats(rr_ms)),
                 TimeDomainExtractor_compute_sdnn(AsFloats(rr_ms)),
                 TimeDomainExtractor_compute_rmssd(diff(AsFloats(rr_ms))),
                 TimeDomainExtractor_compute_pnnX(diff(AsFloats(rr_ms)), 50),
                 TimeDomainExtractor_compute_pnnX(diff(AsFloats(rr_ms)), 20),
                 TimeDomainExtractor_compute_mean_hr(AsFloats(rr_ms)),
                 TimeDomainExtractor_compute_std_hr(AsFloats(rr_ms)),
                 TimeDomainExtractor_compute_cv_rr(AsFloats(rr_ms)),
                 Len(rr_ms), TRUE))

\* FrequencyDomainExtractor.__init__
FrequencyDomainExtractor(resample_rate, min_intervals, nperseg) ==
    [resample_rate |-> resample_rate, min_intervals |-> min_intervals,
     nperseg |-> nperseg]

\* FrequencyDomainExtractor._create_invalid_features
FrequencyDomainExtractor_create_invalid_features(n) ==
    FrequencyDomainFeatures(NaN, NaN, NaN, NaN, NaN, NaN, n, FALSE)

\* FrequencyDomainExtractor._validate_features
FrequencyDomainExtractor_validate_features(features) ==
    IF ~isfinite(features.lf_power) THEN FALSE
    ELSE IF ~isfinite(features.hf_power) THEN FALSE
    ELSE IF Sign(features.lf_power) < 0 \/ Sign(features.hf_power) < 0
    THEN FALSE
    ELSE TRUE

\* The n_samples of FrequencyDomainExtractor._interpolate_rr from the
\* duration in ms.
FrequencyDomainExtractor_n_samples(self, duration) ==
    Trunc(duration * self.resample_rate, MsPerSecond)

\* FrequencyDomainExtractor._interpolate_rr: the number of uniform samples,
\* or -1 when interp1d or np.linspace raises.
FrequencyDomainExtractor_interpolate_rr(self, rr_ms, time_ms) ==
    IF InterpRaises(time_ms) THEN 0 - 1
    ELSE IF FrequencyDomainExtractor_n_samples(
                self, time_ms[Len(time_ms)]) < 0 THEN 0 - 1
    ELSE FrequencyDomainExtractor_n_samples(self, time_ms[Len(time_ms)])

\* The nperseg FrequencyDomainExtractor._compute_psd asks for.
FrequencyDomainExtractor_nperseg(self, len_interp) ==
    IF self.nperseg = None
    THEN (IF MinSegment > len_interp \div 2
          THEN MinSegment ELSE len_interp \div 2)
    ELSE (IF self.nperseg[1] < len_interp
          THEN self.nperseg[1] ELSE len_interp)

\* The estimate of signal.welch for a segment length: nperseg is shortened
\* to the length of the signal.
FrequencyDomainExtractor_welch(self, nperseg, shape) ==
    [freqs |-> [i \in 1..(nperseg \div 2 + 1) |->
                   Num((i - 1) * self.resample_rate, nperseg)],
     psd |-> [i \in 1..(nperseg \div 2 + 1) |->
                   PSDValue(shape, i - 1, nperseg \div 2 + 1)]]

\* FrequencyDomainExtractor._compute_psd
FrequencyDomainExtractor_compute_psd(self, len_interp, shape) ==
    FrequencyDomainExtractor_welch(
        self,
        IF FrequencyDomainExtractor_nperseg(self, len_interp) > len_interp
        THEN len_interp
        ELSE FrequencyDomainExtractor_nperseg(self, len_interp),
        shape)

\* The integral of FrequencyDomainExtractor._band_power over the bins idx.
FrequencyDomainExtractor_band_integral(freqs, psd, idx) ==
    IF idx = {} THEN Zero
    ELSE trapezoid(Masked(psd, idx), Masked(freqs, idx))

\* FrequencyDomainExtractor._band_power
FrequencyDomainExtractor_band_power(welch, band) ==
    FrequencyDomainExtractor_band_integral(
        welch.freqs, welch.psd, BandIdx(welch.freqs, band))

\* The end of the try block of FrequencyDomainExtractor.extract.
FrequencyDomainExtractor_validated(features) ==
    IF ~FrequencyDomainExtractor_validate_features(features)
    THEN [features EXCEPT !.is_valid = FALSE]
    ELSE features

\* The features of FrequencyDomainExtractor.extract from the band powers.
FrequencyDomainExtractor_features(n, lf_power, hf_power, total_power) ==
    FrequencyDomainFeatures(
        lf_power,
        hf_power,
        IF GtInt(hf_power, 0) THEN DivF(lf_power, hf_power) ELSE NaN,
        total_power,
        IF GtInt(total_power, 0)
        THEN MulF(DivF(lf_power, total_power), Num(100, 1)) ELSE NaN,
        IF GtInt(total_power, 0)
        THEN MulF(DivF(hf_power, total_power), Num(100, 1)) ELSE NaN,
        n, TRUE)

\* FrequencyDomainExtractor.extract from the band powers on.
FrequencyDomainExtractor_bands(n, lf_power, hf_power) ==
    FrequencyDomainExtractor_validated(
        FrequencyDomainExtractor_features(
            n, lf_power, hf_power, AddF(lf_power, hf_power)))

\* FrequencyDomainExtractor.extract from the spectrum on.
FrequencyDomainExtractor_spectrum(n, welch) ==
    FrequencyDomainExtractor_bands(
        n,
        FrequencyDomainExtractor_band_power(welch, LF_BAND),
        FrequencyDomainExtractor_band_power(welch, HF_BAND))

\* The try block of FrequencyDomainExtractor.extract from the number of
\* interpolated samples on (-1: the interpolation raised).
FrequencyDomainExtractor_try(self, n, len_interp, shape) ==
    IF len_interp < 0
    THEN FrequencyDomainExtractor_create_invalid_features(n)
    ELSE IF len_interp < MinSamples
    THEN FrequencyDomainExtractor_create_invalid_features(n)
    ELSE FrequencyDomainExtractor_spectrum(
             n, FrequencyDomainExtractor_compute_psd(self, len_interp, shape))

\* FrequencyDomainExtractor.extract
FrequencyDomainExtractor_extract(self, rr_ms, shape) ==
    IF Len(rr_ms) < self.min_intervals
    THEN FrequencyDomainExtractor_create_invalid_features(Len(rr_ms))
    ELSE FrequencyDomainExtractor_try(
             self, Len(rr_ms),
             FrequencyDomainExtractor_interpolate_rr(
                 self, rr_ms, TimeAxis(rr_ms)),
             shape)

\* NonlinearExtractor.__init__
NonlinearExtractor(m, r_factor, min_intervals) ==
    [m |-> m, r_factor |-> r_factor, min_intervals |-> min_intervals]

\* NonlinearExtractor._create_invalid_features
NonlinearExtractor_create_invalid_features(n) ==
    NonlinearFeatures(NaN, n, FALSE)

\* NonlinearExtractor._validate_features
NonlinearExtractor_validate_features(features) ==
    IF ~isfinite(features.sample_entropy) THEN FALSE
    ELSE IF Sign(features.sample_entropy) < 0 THEN FALSE
    ELSE TRUE

\* The templates of NonlinearExtractor._count_matches: range(N - m).
NonlinearExtractor_templates(N, m) ==
    0..((IF N - m > 0 THEN N - m ELSE 0) - 1)

\* NonlinearExtractor._count_matches
NonlinearExtractor_count_matches(signal_data, m, r) ==
    Cardinality(
        {p \in NonlinearExtractor_templates(Len(signal_data), m)
                   \X NonlinearExtractor_templates(Len(signal_data), m) :
            /\ p[1] < p[2]
            /\ WithinTolerance(Chebyshev(signal_data, p[1], p[2], m), r)})

\* The return of NonlinearExtractor._sample_entropy from the counts.
NonlinearExtractor_entropy(A, B) ==
    IF A = 0 \/ B = 0 THEN NaN
    ELSE IF A = B THEN Zero
    ELSE [k |-> "neglog", n |-> A \div GCD(A, B), d |-> B \div GCD(A, B)]

\* NonlinearExtractor._sample_entropy once the tolerance r is known.
NonlinearExtractor_sample_entropy_within(signal_data, m, r) ==
    IF r = Zero THEN Zero
    ELSE NonlinearExtractor_entropy(
             NonlinearExtractor_count_matches(signal_data, m + 1, r),
             NonlinearExtractor_count_matches(signal_data, m, r))

\* NonlinearExtractor._sample_entropy
NonlinearExtractor_sample_entropy(signal_data, m, r_factor) ==
    NonlinearExtractor_sample_entropy_within(
        signal_data, m, ScaleRoot(std(AsFloats(signal_data)), r_factor))

\* The end of the try block of NonlinearExtractor.extract.
NonlinearExtractor_validated(features) ==
    IF ~NonlinearExtractor_validate_features(features)
    THEN [features EXCEPT !.is_valid = FALSE]
    ELSE features

\* NonlinearExtractor.extract
NonlinearExtractor_extract(self, rr_ms) ==
    IF Len(rr_ms) < self.min_intervals
    THEN NonlinearExtractor_create_invalid_features(Len(rr_ms))
    ELSE NonlinearExtractor_validated(
             NonlinearFeatures(
                 NonlinearExtractor_sample_entropy(
                     rr_ms, self.m, self.r_factor),
                 Len(rr_ms), TRUE))

\* HRVFeatureExtractor.__init__ of the training codebase: one extractor per
\* domain, built from the six parameters.
TrainingHRVFeatureExtractor(tdmin, rate, fdmin, m, rfactor, nlmin) ==
    [time_domain |-> TimeDomainExtractor(tdmin),
     frequency_domain |-> FrequencyDomainExtractor(rate, fdmin, None),
     nonlinear |-> NonlinearExtractor(m, rfactor, nlmin)]

\* What the training extract does with the features of the three domains.
TrainingHRVFeatureExtractor_result(n, td_features, fd_features, nl_features) ==
    HRVFeatures(
        td_features, fd_features, nl_features, n, td_features.is_valid,
        (IF ~td_features.is_valid THEN <<"time_domain">> ELSE <<>>)
            \o (IF ~fd_features.is_valid
                THEN <<"frequency_domain">> ELSE <<>>)
            \o (IF ~nl_features.is_valid THEN <<"nonlinear">> ELSE <<>>))

\* HRVFeatureExtractor.extract of the training codebase
TrainingHRVFeatureExtractor_extract(self, rr_ms, shape) ==
    TrainingHRVFeatureExtractor_result(
        Len(rr_ms),
        TimeDomainExtractor_extract(self.time_domain, rr_ms),
        FrequencyDomainExtractor_extract(self.frequency_domain, rr_ms, shape),
        NonlinearExtractor_extract(self.nonlinear, rr_ms))

(***************************************************************************)
(* core/predictor.py.                                                      *)
(*                                                                         *)
(* The files on disk are a record: whether each file exists, the parsed    *)
(* metadata (None when the file is not JSON) and whether xgboost can load  *)
(* the model file.  The booster is "none" (no object), "empty" (a Booster  *)
(* that has loaded nothing) or "trained".  What xgboost does with a        *)
(* feature vector is library code: each predict takes it from a family of  *)
(* outcomes (the parameter output).                                        *)
(***************************************************************************)
ModelLoadError == "ModelLoadError"
InferenceError == "InferenceError"
XGBoostError == "XGBoostError"
ValueError == "ValueError"

\* ArrhythmiaPredictor.__init__
ArrhythmiaPredictor ==
    [_model |-> "none", _meta |-> None, _model_hash |-> "",
     _loaded_at |-> None, _feature_names |-> <<>>]

\* ArrhythmiaPredictor.is_loaded
is_loaded(self) == self._model # "none"

\* ArrhythmiaPredictor.feature_count
feature_count(self) == Len(self._feature_names)

\* The part of load after the metadata was accepted: the hash, a new
\* Booster in _model, and then load_model, which raises for a model file
\* xgboost cannot read.
load_model(self, fs) ==
    IF fs.model = "trained"
    THEN [self |-> [self EXCEPT !._model_hash = "sha256",
                                !._model = "trained",
                                !._loaded_at = Some("utcnow")],
          exc |-> None]
    ELSE [self |-> [self EXCEPT !._model_hash = "sha256",
                                !._model = "empty"],
          exc |-> Some(ModelLoadError)]

\* The part of load after json.load: the feature names are taken from the
\* metadata, and an empty list is refused.
load_metadata(self, fs) ==
    IF self._feature_names = <<>>
    THEN [self |-> self, exc |-> Some(ModelLoadError)]
    ELSE load_model(self, fs)

\* ArrhythmiaPredictor.load: the object after the call and the exception
\* it raised, if any.
load(self, fs) ==
    IF ~fs.model_exists THEN [self |-> self, exc |-> Some(ModelLoadError)]
    ELSE IF ~fs.meta_exists
    THEN [self |-> self, exc |-> Some(ModelLoadError)]
    ELSE IF fs.meta = None
    THEN [self |-> self, exc |-> Some(ModelLoadError)]
    ELSE load_metadata(
             [self EXCEPT !._meta = fs.meta,
                          !._feature_names = fs.meta[1].feature_names],
             fs)

\* load_predictor: loads the global predictor unless it is loaded.
load_predictor(self, fs) ==
    IF ~is_loaded(self) THEN load(self, fs)
    ELSE [self |-> self, exc |-> None]

\* Variant of the clamp that only bounds the probability from above.
clamp_UpperOnly(probability) ==
    IF LtInt(probability, 1) THEN probability ELSE Num(1, 1)

\* max(0.0, min(1.0, probability)): Python's min and max return their first
\* argument unless the second compares smaller (larger), so NaN gives 1.0.
clamp(probability) ==
    IF LtInt(probability, 1)
    THEN (IF GtInt(probability, 0) THEN probability ELSE Zero)
    ELSE Num(1, 1)

\* The except clauses of predict: XGBoostError and every other Exception
\* raised in the try block leave as InferenceError.
predict_except(r) ==
    IF r.exc = None THEN r
    ELSE IF r.exc = Some(XGBoostError)
    THEN [ret |-> None, exc |-> Some(InferenceError)]
    ELSE [ret |-> None, exc |-> Some(InferenceError)]

\* The try block of predict.
predict_try(self, feature_array, output) ==
    IF Len(feature_array) # feature_count(self)
    THEN [ret |-> None, exc |-> Some(InferenceError)]
    ELSE IF \E i \in 1..Len(feature_array) : ~isfinite(feature_array[i])
    THEN [ret |-> None, exc |-> Some(InferenceError)]
    ELSE IF output.exc # None THEN [ret |-> None, exc |-> output.exc]
    ELSE [ret |-> Some(clamp(output.ret[1])), exc |-> None]

\* ArrhythmiaPredictor.predict
predict(self, features, output) ==
    IF ~is_loaded(self) THEN [ret |-> None, exc |-> Some(InferenceError)]
    ELSE IF ~features.is_valid
    THEN [ret |-> None, exc |-> Some(InferenceError)]
    ELSE predict_except(predict_try(self, to_array(features), output))

(***************************************************************************)
(* api/routes.py.  A response keeps the HTTP status, the error code of an  *)
(* error body, the probability of a success body, and the two fields of    *)
(* the health body the monitoring reads.                                   *)
(***************************************************************************)
HTTP_200_OK == 200
HTTP_422_UNPROCESSABLE_ENTITY == 422
HTTP_500_INTERNAL_SERVER_ERROR == 500
HTTP_503_SERVICE_UNAVAILABLE == 503

AnalysisResponse(status_code, code, risk_probability) ==
    [endpoint |-> "analyze", status_code |-> status_code, code |-> code,
     risk_probability |-> risk_probability, status |-> None,
     model_loaded |-> None]

\* health_check
HealthResponse(self) ==
    [endpoint |-> "health", status_code |-> HTTP_200_OK, code |-> None,
     risk_probability |-> None,
     status |-> Some(IF is_loaded(self) THEN "healthy" ELSE "degraded"),
     model_loaded |-> Some(is_loaded(self))]

\* analyze_arrhythmia after predict: an InferenceError becomes a 500 with
\* INFERENCE_ERROR, any other exception leaves the handler, and a
\* probability is wrapped into the success response.
analyze_predicted(p) ==
    IF p.exc = Some(InferenceError)
    THEN AnalysisResponse(HTTP_500_INTERNAL_SERVER_ERROR,
                          Some("INFERENCE_ERROR"), None)
    ELSE IF p.exc # None
    THEN AnalysisResponse(HTTP_500_INTERNAL_SERVER_ERROR, None, None)
    ELSE AnalysisResponse(HTTP_200_OK, None, p.ret)

\* _last_inference_at when analyze_arrhythmia has answered: the
\* assignment stands after the success response is built, past every
\* raise of the handler.
_last_inference_at(resp, before) ==
    IF resp.status_code = HTTP_200_OK THEN Some("now") ELSE before

\* Variant of analyze_arrhythmia that looks at the model before the
\* request.
analyze_arrhythmia_ModelFirst(self, v, f, p) ==
    IF v.exc # None
    THEN AnalysisResponse(HTTP_500_INTERNAL_SERVER_ERROR, None, None)
    ELSE IF ~is_loaded(self)
    THEN AnalysisResponse(HTTP_503_SERVICE_UNAVAILABLE,
                          Some("MODEL_UNAVAILABLE"), None)
    ELSE IF ~v.ret[1].is_valid
    THEN AnalysisResponse(HTTP_422_UNPROCESSABLE_ENTITY,
                          v.ret[1].error_code, None)
    ELSE IF ~f[1].is_valid
    THEN AnalysisResponse(HTTP_422_UNPROCESSABLE_ENTITY,
                          Some("FEATURE_EXTRACTION_FAILED"), None)
    ELSE analyze_predicted(p[1])

\* analyze_arrhythmia after validation: v is what validate returned or
\* raised, f the extracted features if extract ran, p the outcome of
\* predict if predict ran.
analyze_arrhythmia(self, v, f, p) ==
    IF v.exc # None
    THEN AnalysisResponse(HTTP_500_INTERNAL_SERVER_ERROR, None, None)
    ELSE IF ~v.ret[1].is_valid
    THEN AnalysisResponse(HTTP_422_UNPROCESSABLE_ENTITY,
                          v.ret[1].error_code, None)
    ELSE IF ~f[1].is_valid
    THEN AnalysisResponse(HTTP_422_UNPROCESSABLE_ENTITY,
                          Some("FEATURE_EXTRACTION_FAILED"), None)
    ELSE IF ~is_loaded(self)
    THEN AnalysisResponse(HTTP_503_SERVICE_UNAVAILABLE,
                          Some("MODEL_UNAVAILABLE"), None)
    ELSE analyze_predicted(p[1])

(***************************************************************************)
(* Inputs.                                                                 *)
(***************************************************************************)
\* RR values at and around the default value bounds.
RRValues == {min_rr_value_ms - 1, min_rr_value_ms,
             max_rr_value_ms, max_rr_value_ms + 1}

SeqsUpTo(S, n) == UNION {[1..k -> S] : k \in 0..n}

\* Every sequence over RRValues of length at most MaxLen.
ShortInputs == SeqsUpTo(RRValues, MaxLen)

\* Sequences at and around the default count bounds: 800 ms beats, the
\* first one replaced by each value of RRValues in turn.
LongLens == {min_rr_count - 1, min_rr_count, min_rr_count + 1,
             max_rr_count, max_rr_count + 1}
LongInputs ==
    {[i \in 1..n |-> IF i = 1 THEN v ELSE 800] :
        n \in LongLens, v \in RRValues \cup {800}}

\* Sequences long enough to hold more out-of-range elements than the
\* diagnostics keep.
MediumLen == MaxSampleInvalid + 2
MediumInputs ==
    [1..MediumLen -> {min_rr_value_ms - 1, 800, max_rr_value_ms + 1}]

RRInputs == ShortInputs \cup MediumInputs \cup LongInputs

\* Window start, and window ends at and around the default duration bounds
\* (one before the start).
StartT == 5 * MsPerSecond
Datetime(t, aware) == [t |-> t, aware |-> aware]
StartTimestamps == {Datetime(StartT, a) : a \in BOOLEAN}
EndTimestamps ==
    {Datetime(StartT + d, a) :
        d \in {0 - MsPerSecond,
               min_window_duration_s * MsPerSecond - 1,
               min_window_duration_s * MsPerSecond,
               max_window_duration_s * MsPerSecond,
               max_window_duration_s * MsPerSecond + 1},
        a \in BOOLEAN}

\* Thresholds a validator is constructed with: the defaults, the defaults
\* with small count bounds, and one with each pair of bounds inverted.
ValidatorConfigs ==
    {InputValidator(min_rr_count, max_rr_count, min_rr_value_ms,
                    max_rr_value_ms, min_window_duration_s,
                    max_window_duration_s),
     InputValidator(2, 3, min_rr_value_ms, max_rr_value_ms,
                    min_window_duration_s, max_window_duration_s),
     InputValidator(1, 4, min_rr_value_ms, max_rr_value_ms,
                    min_window_duration_s, max_window_duration_s),
     InputValidator(1, MediumLen + 1, min_rr_value_ms, max_rr_value_ms,
                    min_window_duration_s, max_window_duration_s),
     InputValidator(0, 2, min_rr_value_ms, max_rr_value_ms,
                    min_window_duration_s, max_window_duration_s),
     InputValidator(3, 2, min_rr_value_ms, max_rr_value_ms,
                    min_window_duration_s, max_window_duration_s),
     InputValidator(0, 4, max_rr_value_ms, min_rr_value_ms,
                    min_window_duration_s, max_window_duration_s),
     InputValidator(1, 4, min_rr_value_ms, max_rr_value_ms,
                    max_window_duration_s, min_window_duration_s)}

\* RR arrays of extract: a negative and a zero interval, an interval that
\* gives a mean above 3000 ms, and two intervals 50 ms apart.
ArrayValues == {0 - 800, 0, 750, 800, 4000}
ShortArrays == SeqsUpTo(ArrayValues, MaxArrayLen)

\* Arrays at and just below each default minimum: steady 800 ms beats, and
\* beats that alternate between 800 and 750 ms.
ThresholdLens == {td_min_intervals - 1, td_min_intervals,
                  fd_min_intervals - 1, fd_min_intervals,
                  nl_min_intervals - 1, nl_min_intervals}
ThresholdArrays ==
    {[i \in 1..n |-> IF i % 2 = 0 THEN v ELSE 800] :
        n \in ThresholdLens, v \in {750, 800}}

\* Steady beats of td_min_intervals intervals around the limits of
\* _validate_time_domain (mean_rr <= 3000 ms, mean_hr <= 300 bpm), and the
\* regular window of 75 beats of 800 ms.
SteadyArrays ==
    {[i \in 1..td_min_intervals |-> v] :
        v \in {150, 199, 200, 3000, 3001, 4000}}
RegularWindow == [i \in 1..75 |-> 800]

\* Five intervals whose standard deviation is 250 ms, so that the tolerance
\* r = 0.2 * 250 equals the distance of the templates <<200>> and <<250>>,
\* the only two intervals within r of each other.
EdgeArray == <<400, 200, 250, 800, 600>>

\* Sixty-one beats of 2000 ms on average whose last beat starts at 120 s:
\* 480 samples at 4 Hz, segments of 240 samples, and the bin 9 * 4 / 240
\* at 0.15 Hz.
BoundaryWindow ==
    [i \in 1..61 |-> IF i = 61 THEN 2000 ELSE IF i % 2 = 0 THEN 2500 ELSE 1500]

RRArrays ==
    ShortArrays \cup ThresholdArrays \cup SteadyArrays
        \cup {RegularWindow, EdgeArray, BoundaryWindow}

\* Arrays given to both extractors: the short arrays up to MaxPortLen
\* intervals, the arrays around the minimum counts and the limits, and
\* td_min_intervals negative intervals that alternate.
PortArrays ==
    SeqsUpTo(ArrayValues, MaxPortLen) \cup ThresholdArrays \cup SteadyArrays
        \cup {[i \in 1..td_min_intervals |->
                  IF i % 2 = 0 THEN 0 - 750 ELSE 0 - 800]}

\* A window of min_rr_count beats between 200 and 2000 ms in which no run of
\* three beats repeats within the tolerance of the sample entropy.
IrregularWindow ==
    <<800, 600, 600, 2000, 800, 400, 200, 1200, 400, 1200,
      1200, 600, 200, 200, 400, 800, 600, 800, 200, 400,
      200, 200, 2000, 1000, 200, 2000, 400, 1200, 200, 800,
      1200, 1000, 2000, 1200, 1000, 800, 600, 1200, 2000, 600>>

\* Arrays the predictor sees features of.
Windows ==
    ThresholdArrays \cup SteadyArrays \cup {RegularWindow, IrregularWindow}

\* Parameters an extractor is constructed with: the defaults, and small
\* minimum counts.
DefaultExtractor ==
    HRVFeatureExtractor(td_min_intervals, fd_resample_rate,
                        fd_min_intervals, nl_m, nl_r_factor,
                        nl_min_intervals)
ExtractorConfigs ==
    {DefaultExtractor,
     HRVFeatureExtractor(2, fd_resample_rate, 3, 1, nl_r_factor, 4),
     HRVFeatureExtractor(4, fd_resample_rate, 4, nl_m, nl_r_factor, 3),
     HRVFeatureExtractor(0, fd_resample_rate, 0, 1, nl_r_factor, 0)}

DefaultValidator ==
    InputValidator(min_rr_count, max_rr_count, min_rr_value_ms,
                   max_rr_value_ms, min_window_duration_s,
                   max_window_duration_s)

\* Validators of the service (the defaults, and a minimum count set below
\* the minimum of the time domain), and the RR lists of its requests: the
\* irregular window, beats alternating between 800 and 750 ms (at the
\* default minimum count, one fewer, twelve, and one fewer than the time
\* domain asks for), a window with one interval below the value bounds, a
\* window of the shortest intervals allowed, and a window of the longest
\* intervals allowed after one interval that is out of range.
ServiceValidators ==
    {DefaultValidator,
     InputValidator(td_min_intervals - 1, max_rr_count, min_rr_value_ms,
                    max_rr_value_ms, min_window_duration_s,
                    max_window_duration_s)}
Alternating(n) == [i \in 1..n |-> IF i % 2 = 0 THEN 750 ELSE 800]
Requests ==
    {IrregularWindow, Alternating(min_rr_count),
     Alternating(min_rr_count - 1), Alternating(td_min_intervals + 2),
     Alternating(td_min_intervals - 1),
     [i \in 1..min_rr_count |-> min_rr_value_ms],
     [i \in 1..(min_rr_count + 1) |->
         IF i = 1 THEN max_rr_value_ms + 1 ELSE max_rr_value_ms],
     <<min_rr_value_ms - 1>> \o Alternating(min_rr_count)}

\* Model and metadata files: as deployed, a file missing, metadata that is
\* not JSON, metadata without feature names, metadata with one name fewer
\* than the extractor produces, and a model file xgboost cannot load.
Files(model_exists, meta_exists, meta, model) ==
    [model_exists |-> model_exists, meta_exists |-> meta_exists,
     meta |-> meta, model |-> model]
Metadata(names) == Some([feature_names |-> names])
DeployedFiles == Files(TRUE, TRUE, Metadata(FEATURE_NAMES), "trained")
FileSystems ==
    {DeployedFiles,
     Files(FALSE, TRUE, Metadata(FEATURE_NAMES), "trained"),
     Files(TRUE, FALSE, Metadata(FEATURE_NAMES), "trained"),
     Files(TRUE, TRUE, None, "trained"),
     Files(TRUE, TRUE, Metadata(<<>>), "trained"),
     Files(TRUE, TRUE,
           Metadata(SubSeq(FEATURE_NAMES, 1, Len(FEATURE_NAMES) - 1)),
           "trained"),
     Files(TRUE, TRUE, Metadata(FEATURE_NAMES), "corrupt")}

\* What the booster does with a feature vector: it returns a score (inside,
\* at and outside the bounds of a probability, or not finite) or raises.
Scores ==
    {Num(0 - 1, 10), Zero, Num(1, 4), Num(1, 2), Num(1, 1), Num(3, 2),
     NaN, Inf(1), Inf(0 - 1)}
ModelOutputs ==
    {[ret |-> Some(score), exc |-> None] : score \in Scores}
        \cup {[ret |-> None, exc |-> Some(e)] : e \in {XGBoostError, ValueError}}

(***************************************************************************)
(* State machine.  A request is one call on the validator or on the        *)
(* extractor; its arguments and its result live until the caller drops     *)
(* them.                                                                   *)
(***************************************************************************)
\* No domain of a reordered extract has run.
NoDomains ==
    [time_domain |-> None, frequency_domain |-> None, nonlinear |-> None,
     invalid_domains |-> <<>>]

\* routes._last_inference_at holds datetime.utcnow() of a request: the
\* time of the request being answered ("now") or of one answered before
\* ("earlier").
Earlier(at) == IF at = None THEN None ELSE Some("earlier")

NoRequest ==
    /\ domains = NoDomains
    /\ rr_intervals_ms = <<>>
    /\ start_timestamp = Datetime(StartT, FALSE)
    /\ end_timestamp = Datetime(StartT, FALSE)
    /\ validation = None
    /\ raised = None
    /\ rr_array = <<>>
    /\ spectrum = None
    /\ hrv = None
    /\ serialized = None
    /\ training = None
    /\ model_output = None
    /\ prediction = None
    /\ response = None
    /\ pc = "idle"

\* No predictor has been asked for: the object get_predictor would create,
\* nothing loaded, and the files as deployed.
NoPredictor ==
    /\ last_inference_at = None
    /\ predictor = ArrhythmiaPredictor
    /\ files = DeployedFiles
    /\ loading = None

InitValidator ==
    /\ validator \in ValidatorConfigs
    /\ extractor = DefaultExtractor
    /\ NoPredictor
    /\ NoRequest

InitExtractor ==
    /\ validator = DefaultValidator
    /\ extractor \in ExtractorConfigs
    /\ NoPredictor
    /\ NoRequest

\* One call validator.validate(rr, s, e) on a fresh request.
Validate ==
    /\ pc = "idle"
    /\ \E rr \in RRInputs, s \in StartTimestamps, e \in EndTimestamps :
        LET r == validate(validator, rr, s, e) IN
        /\ rr_intervals_ms' = rr
        /\ start_timestamp' = s
        /\ end_timestamp' = e
        /\ validation' = r.ret
        /\ raised' = r.exc
        /\ pc' = "validated"
        /\ UNCHANGED <<validator, extractor, rr_array, spectrum, hrv,
                       serialized, training, predictor, files, loading,
                       model_output, prediction, response,
                   last_inference_at, domains>>

\* Spectra scipy can return for the array.  Of a steady signal linear
\* detrending leaves zero in exact arithmetic and rounding noise in
\* float64, so both an all-zero and a positive spectrum are possible.
SpectraOf(arr) ==
    IF \A i, j \in 1..Len(arr) : arr[i] = arr[j]
    THEN PSDShapes ELSE PSDShapes \ {"zero"}

\* One call extractor.extract(arr) on a fresh request.
Extract ==
    /\ pc = "idle"
    /\ \E arr \in RRArrays :
        \E shape \in SpectraOf(arr) :
            /\ rr_array' = arr
            /\ spectrum' = Some(shape)
            /\ hrv' = Some(extract(extractor, arr, shape))
            /\ pc' = "extracted"
            /\ UNCHANGED <<validator, extractor, rr_intervals_ms,
                           start_timestamp, end_timestamp, validation,
                           raised, serialized, training, predictor, files,
                           loading, model_output, prediction, response,
                   last_inference_at, domains>>

\* The caller reads the features: to_array() for the model, to_dict() for
\* the response, of the whole and of each domain.
Serialize ==
    /\ pc = "extracted"
    /\ LET f == hrv[1] IN
       serialized' = Some(
           [array |-> to_array(f), dict |-> to_dict(f),
            td_array |-> td_to_array(f.time_domain),
            td_dict |-> td_to_dict(f.time_domain),
            fd_array |-> fd_to_array(f.frequency_domain),
            fd_dict |-> fd_to_dict(f.frequency_domain),
            nl_array |-> nl_to_array(f.nonlinear),
            nl_dict |-> nl_to_dict(f.nonlinear)])
    /\ pc' = "serialized"
    /\ UNCHANGED <<validator, extractor, rr_intervals_ms, start_timestamp,
                   end_timestamp, validation, raised, rr_array, spectrum,
                   hrv, training, predictor, files, loading, model_output,
                   prediction, response,
                   last_inference_at, domains>>

\* The request and its result are dropped once the caller has consumed
\* them; nothing of a call survives in the validator or the extractor, and
\* the time of the call is from now on an earlier time.
Discard ==
    /\ pc # "idle"
    /\ rr_intervals_ms' = <<>>
    /\ start_timestamp' = Datetime(StartT, FALSE)
    /\ end_timestamp' = Datetime(StartT, FALSE)
    /\ validation' = None
    /\ raised' = None
    /\ rr_array' = <<>>
    /\ spectrum' = None
    /\ hrv' = None
    /\ serialized' = None
    /\ training' = None
    /\ model_output' = None
    /\ prediction' = None
    /\ response' = None
    /\ last_inference_at' = Earlier(last_inference_at)
    /\ domains' = NoDomains
    /\ pc' = "idle"
    /\ UNCHANGED <<validator, extractor, predictor, files, loading>>

\* The training extractor constructed with the parameters of self.
TrainingExtractorOf(self) ==
    TrainingHRVFeatureExtractor(
        self.td_min_intervals, self.fd_resample_rate, self.fd_min_intervals,
        self.nl_m, self.nl_r_factor, self.nl_min_intervals)

\* One call of extract on each of the two extractors, constructed with the
\* same parameters, with the same array.
ExtractBoth ==
    /\ pc = "idle"
    /\ \E arr \in PortArrays :
        \E shape \in SpectraOf(arr) :
            /\ rr_array' = arr
            /\ spectrum' = Some(shape)
            /\ hrv' = Some(extract(extractor, arr, shape))
            /\ training' = Some(TrainingHRVFeatureExtractor_extract(
                                    TrainingExtractorOf(extractor),
                                    arr, shape))
            /\ pc' = "ported"
            /\ UNCHANGED <<validator, extractor, rr_intervals_ms,
                           start_timestamp, end_timestamp, validation,
                           raised, serialized, predictor, files, loading,
                           model_output, prediction, response,
                   last_inference_at, domains>>

\* The predictor before anything was loaded, with any files on disk.
InitPredictor ==
    /\ last_inference_at = None
    /\ validator = DefaultValidator
    /\ extractor = DefaultExtractor
    /\ predictor = ArrhythmiaPredictor
    /\ files \in FileSystems
    /\ loading = None
    /\ NoRequest

\* One call load_predictor(): the outcome is kept in loading.
LoadPredictor ==
    /\ pc = "idle"
    /\ LET r == load_predictor(predictor, files) IN
        /\ predictor' = r.self
        /\ loading' = Some([attempted |-> ~is_loaded(predictor),
                            exc |-> r.exc])
    /\ UNCHANGED <<validator, extractor, rr_intervals_ms, start_timestamp,
                   end_timestamp, validation, raised, rr_array, spectrum,
                   hrv, serialized, training, files, model_output,
                   prediction, response, pc,
                   last_inference_at, domains>>

\* One call extractor.extract(arr) on a window.
ExtractWindow ==
    /\ pc = "idle"
    /\ \E arr \in Windows :
        \E shape \in SpectraOf(arr) :
            /\ rr_array' = arr
            /\ spectrum' = Some(shape)
            /\ hrv' = Some(extract(extractor, arr, shape))
            /\ pc' = "extracted"
            /\ UNCHANGED <<validator, extractor, rr_intervals_ms,
                           start_timestamp, end_timestamp, validation,
                           raised, serialized, training, predictor, files,
                           loading, model_output, prediction, response,
                   last_inference_at, domains>>

\* One call predictor.predict(features) on the extracted features.
Predict ==
    /\ pc = "extracted"
    /\ \E output \in ModelOutputs :
        /\ model_output' = Some(output)
        /\ prediction' = Some(predict(predictor, hrv[1], output))
    /\ pc' = "predicted"
    /\ UNCHANGED <<validator, extractor, rr_intervals_ms, start_timestamp,
                   end_timestamp, validation, raised, rr_array, spectrum,
                   hrv, serialized, training, predictor, files, loading,
                   response,
                   last_inference_at, domains>>

\* The service before startup: the validator is built from the settings
\* (the defaults, or a lower ARRHYTHMIA_MIN_RR_COUNT), the extractor from
\* its defaults.
InitService ==
    /\ last_inference_at = None
    /\ validator \in ServiceValidators
    /\ extractor = DefaultExtractor
    /\ predictor = ArrhythmiaPredictor
    /\ files \in FileSystems
    /\ loading = None
    /\ NoRequest

\* lifespan: load_predictor() at startup; a ModelLoadError is logged and the
\* service starts.
Lifespan ==
    /\ loading = None
    /\ LoadPredictor

\* A later call of load_predictor().
Reload ==
    /\ loading # None
    /\ LoadPredictor

\* POST /analyze: the whole handler.  The cleaned intervals, the features
\* and the outcome of predict are kept as far as the handler got.
AnalyzeArrhythmia ==
    /\ pc = "idle"
    /\ loading # None
    /\ \E rr \in Requests, s \in StartTimestamps, e \in EndTimestamps :
        \E v \in {validate(validator, rr, s, e)} :
        \E arr \in {IF v.exc = None /\ v.ret[1].is_valid
                    THEN v.ret[1].cleaned_rr_intervals[1] ELSE <<>>} :
        \E shape \in SpectraOf(arr) :
        \E f \in {IF v.exc = None /\ v.ret[1].is_valid
                  THEN Some(extract(extractor, arr, shape)) ELSE None} :
        \E output \in ModelOutputs :
        \E p \in {IF f # None /\ f[1].is_valid /\ is_loaded(predictor)
                  THEN Some(predict(predictor, f[1], output)) ELSE None} :
            /\ rr_intervals_ms' = rr
            /\ start_timestamp' = s
            /\ end_timestamp' = e
            /\ validation' = v.ret
            /\ raised' = v.exc
            /\ rr_array' = arr
            /\ spectrum' = IF f # None THEN Some(shape) ELSE None
            /\ hrv' = f
            /\ model_output' = IF p # None THEN Some(output) ELSE None
            /\ prediction' = p
            /\ response' = Some(analyze_arrhythmia(predictor, v, f, p))
            /\ last_inference_at' =
                   _last_inference_at(analyze_arrhythmia(predictor, v, f, p),
                                      last_inference_at)
            /\ pc' = "responded"
            /\ UNCHANGED <<validator, extractor, serialized, training,
                           predictor, files, loading, domains>>

\* GET /health
HealthCheck ==
    /\ pc = "idle"
    /\ loading # None
    /\ response' = Some(HealthResponse(predictor))
    /\ pc' = "responded"
    /\ UNCHANGED <<validator, extractor, rr_intervals_ms, start_timestamp,
                   end_timestamp, validation, raised, rr_array, spectrum,
                   hrv, serialized, training, predictor, files, loading,
                   model_output, prediction,
                   last_inference_at, domains>>

\* Arrays given to the domain extractors run one by one.
DomainArrays ==
    SeqsUpTo(ArrayValues, MaxDomainLen) \cup ThresholdArrays
        \cup SteadyArrays \cup {EdgeArray}

\* extract(arr) begins: the array is built from the list of the request
\* (routes.py: rr_array = np.array(validation.cleaned_rr_intervals)), and
\* no domain has run.
BeginExtract ==
    /\ pc = "idle"
    /\ \E arr \in DomainArrays :
        \E shape \in SpectraOf(arr) :
            /\ rr_intervals_ms' = arr
            /\ rr_array' = arr
            /\ spectrum' = Some(shape)
            /\ domains' = NoDomains
            /\ pc' = "extracting"
            /\ UNCHANGED <<validator, extractor, start_timestamp,
                           end_timestamp, validation, raised, hrv,
                           serialized, training, predictor, files, loading,
                           model_output, prediction, response,
                           last_inference_at>>

\* The list invalid_domains after the domain name has given features.
Noted(invalid_domains, name, features) ==
    IF ~features.is_valid THEN Append(invalid_domains, name)
    ELSE invalid_domains

\* self._extract_time_domain(rr_ms) and the if that follows it, at any
\* point of extract.
RunTimeDomain ==
    /\ pc = "extracting"
    /\ domains.time_domain = None
    /\ \E td_features \in {_extract_time_domain(extractor, rr_array)} :
           domains' = [domains EXCEPT
               !.time_domain = Some(td_features),
               !.invalid_domains = Noted(@, "time_domain", td_features)]
    /\ rr_array' = _extract_time_domain_leaves(rr_array)
    /\ UNCHANGED <<validator, extractor, rr_intervals_ms, start_timestamp,
                   end_timestamp, validation, raised, spectrum, hrv,
                   serialized, training, predictor, files, loading,
                   model_output, prediction, response, last_inference_at,
                   pc>>

\* self._extract_frequency_domain(rr_ms) and the if that follows it.
RunFrequencyDomain ==
    /\ pc = "extracting"
    /\ domains.frequency_domain = None
    /\ \E fd_features \in {_extract_frequency_domain(extractor, rr_array, spectrum[1])} :
           domains' = [domains EXCEPT
               !.frequency_domain = Some(fd_features),
               !.invalid_domains = Noted(@, "frequency_domain", fd_features)]
    /\ rr_array' = _extract_frequency_domain_leaves(rr_array)
    /\ UNCHANGED <<validator, extractor, rr_intervals_ms, start_timestamp,
                   end_timestamp, validation, raised, spectrum, hrv,
                   serialized, training, predictor, files, loading,
                   model_output, prediction, response, last_inference_at,
                   pc>>

\* self._extract_nonlinear(rr_ms) and the if that follows it.
RunNonlinear ==
    /\ pc = "extracting"
    /\ domains.nonlinear = None
    /\ \E nl_features \in {_extract_nonlinear(extractor, rr_array)} :
           domains' = [domains EXCEPT
               !.nonlinear = Some(nl_features),
               !.invalid_domains = Noted(@, "nonlinear", nl_features)]
    /\ rr_array' = _extract_nonlinear_leaves(rr_array)
    /\ UNCHANGED <<validator, extractor, rr_intervals_ms, start_timestamp,
                   end_timestamp, validation, raised, spectrum, hrv,
                   serialized, training, predictor, files, loading,
                   model_output, prediction, response, last_inference_at,
                   pc>>

\* The end of extract: the overall validity and the result.
Aggregate ==
    /\ pc = "extracting"
    /\ domains.time_domain # None
    /\ domains.frequency_domain # None
    /\ domains.nonlinear # None
    /\ hrv' = Some(HRVFeatures(domains.time_domain[1],
                               domains.frequency_domain[1],
                               domains.nonlinear[1], Len(rr_array),
                               domains.time_domain[1].is_valid,
                               domains.invalid_domains))
    /\ pc' = "extracted"
    /\ UNCHANGED <<validator, extractor, rr_intervals_ms, start_timestamp,
                   end_timestamp, validation, raised, rr_array, spectrum,
                   serialized, training, predictor, files, loading,
                   model_output, prediction, response, last_inference_at,
                   domains>>

NextDomains ==
    \/ BeginExtract \/ RunTimeDomain \/ RunFrequencyDomain \/ RunNonlinear
    \/ Aggregate \/ Discard

SpecDomains == InitExtractor /\ [][NextDomains]_vars

NextValidator == Validate \/ Discard

SpecValidator == InitValidator /\ [][NextValidator]_vars

NextExtractor == Extract \/ Serialize \/ Discard

SpecExtractor == InitExtractor /\ [][NextExtractor]_vars

NextPort == ExtractBoth \/ Discard

SpecPort == InitExtractor /\ [][NextPort]_vars

NextPredictor == LoadPredictor \/ ExtractWindow \/ Predict \/ Discard

SpecPredictor == InitPredictor /\ [][NextPredictor]_vars

NextService ==
    Lifespan \/ Reload \/ AnalyzeArrhythmia \/ HealthCheck \/ Discard

SpecService == InitService /\ [][NextService]_vars

(***************************************************************************)
(* Properties of InputValidator.validate.                                  *)
(*                                                                         *)
(* The conditions below are stated on the request itself (lengths, counts  *)
(* of elements, the difference of the timestamps), not through the         *)
(* operators that model the code.                                          *)
(***************************************************************************)
Returned == pc = "validated" /\ validation # None
Result == validation[1]
Code == Result.error_code
Details == Result.error_details[1]

OutOfRangeIdx ==
    {i \in 1..Len(rr_intervals_ms) :
        \/ rr_intervals_ms[i] < validator.min_rr_value_ms
        \/ rr_intervals_ms[i] > validator.max_rr_value_ms}
NumOut == Cardinality(OutOfRangeIdx)
NumIn == Len(rr_intervals_ms) - NumOut
Kept(x) == validator.min_rr_value_ms <= x /\ x <= validator.max_rr_value_ms
DurationMs == end_timestamp.t - start_timestamp.t
MinWindowMs == validator.min_window_duration_s * MsPerSecond
MaxWindowMs == validator.max_window_duration_s * MsPerSecond

TooFew == Len(rr_intervals_ms) < validator.min_rr_count
TooMany == Len(rr_intervals_ms) > validator.max_rr_count
CountFails == TooFew \/ TooMany
ValuesFail == 2 * NumOut > Len(rr_intervals_ms)
SufficiencyFails == NumIn < validator.min_rr_count
WindowFails == DurationMs < MinWindowMs \/ DurationMs > MaxWindowMs

\* Thresholds that describe intervals.
CountBoundsOrdered == validator.min_rr_count <= validator.max_rr_count
WindowBoundsOrdered ==
    validator.min_window_duration_s <= validator.max_window_duration_s

CountCodes == {Some("INSUFFICIENT_DATA"), Some("EXCESSIVE_DATA")}
WindowCodes == {Some("WINDOW_TOO_SHORT"), Some("WINDOW_TOO_LONG")}

\* C1: validate checks count, then values, then post-filter sufficiency,
\* then the window, and returns the rejection of the first check that
\* fails; a failure of an earlier check is returned whatever the later
\* checks would say.
C1_FirstFailingCheckWins ==
    pc = "validated" =>
        /\ CountFails => Returned /\ Code \in CountCodes
        /\ ~CountFails /\ ValuesFail =>
               Returned /\ Code = Some("INVALID_RR_VALUES")
        /\ ~CountFails /\ ~ValuesFail /\ SufficiencyFails =>
               Returned /\ Code = Some("INSUFFICIENT_VALID_DATA")
        /\ Returned /\ Code \in WindowCodes =>
               ~CountFails /\ ~ValuesFail /\ ~SufficiencyFails

\* A too-short sequence with a too-short window is rejected for its count.
C1_Witness ==
    /\ Returned /\ TooFew /\ DurationMs < MinWindowMs
    /\ Code = Some("INSUFFICIENT_DATA")

\* Requests that fail the value check and the window check at once.
C1_WitnessValuesAndWindow ==
    /\ Returned /\ ~CountFails /\ ValuesFail /\ WindowFails
    /\ Code = Some("INVALID_RR_VALUES")

\* C2: a length below min_rr_count is INSUFFICIENT_DATA and a length above
\* max_rr_count is EXCESSIVE_DATA, each with the received count and the
\* violated bound; a length equal to either bound passes the count check.
\* (Thresholds with min_rr_count <= max_rr_count.)
C2_CountCheck ==
    pc = "validated" /\ CountBoundsOrdered =>
        /\ TooFew =>
               /\ Returned /\ Code = Some("INSUFFICIENT_DATA")
               /\ Details = [received_count |-> Len(rr_intervals_ms),
                             minimum_required |-> validator.min_rr_count]
        /\ TooMany =>
               /\ Returned /\ Code = Some("EXCESSIVE_DATA")
               /\ Details = [received_count |-> Len(rr_intervals_ms),
                             maximum_allowed |-> validator.max_rr_count]
        /\ Len(rr_intervals_ms) \in {validator.min_rr_count,
                                     validator.max_rr_count} =>
               (Returned => Code \notin CountCodes)

\* Under the defaults: 39 is rejected, 201 is rejected, 40 and 200 pass.
DefaultCounts ==
    /\ validator.min_rr_count = min_rr_count
    /\ validator.max_rr_count = max_rr_count
C2_Witness ==
    /\ Returned /\ DefaultCounts
    /\ Len(rr_intervals_ms) = min_rr_count - 1
    /\ Code = Some("INSUFFICIENT_DATA")
C2_WitnessExcessive ==
    /\ Returned /\ DefaultCounts
    /\ Len(rr_intervals_ms) = max_rr_count + 1
    /\ Code = Some("EXCESSIVE_DATA")
C2_WitnessAtBounds ==
    /\ Returned /\ DefaultCounts /\ Result.is_valid
    /\ Len(rr_intervals_ms) = max_rr_count

\* C3: the cleaned sequence is the input without the elements outside
\* [min_rr_value_ms, max_rr_value_ms], both bounds kept; what is kept has
\* its value, multiplicity and relative order.  A successful result carries
\* the cleaned sequence; INSUFFICIENT_VALID_DATA reports its length.
C3_CleanedIsFilteredInput ==
    Returned =>
        /\ Result.is_valid =>
               Result.cleaned_rr_intervals =
                   Some(SelectSeq(rr_intervals_ms, Kept))
        /\ Code = Some("INSUFFICIENT_VALID_DATA") =>
               Details.valid_count = Len(SelectSeq(rr_intervals_ms, Kept))

\* A successful result that dropped an element and kept both 200 and 2000.
C3_Witness ==
    /\ Returned /\ Result.is_valid /\ NumOut > 0
    /\ validator.min_rr_value_ms = min_rr_value_ms
    /\ validator.max_rr_value_ms = max_rr_value_ms
    /\ \E i, j \in 1..Len(Result.cleaned_rr_intervals[1]) :
           /\ Result.cleaned_rr_intervals[1][i] = min_rr_value_ms
           /\ Result.cleaned_rr_intervals[1][j] = max_rr_value_ms

\* The first k out-of-range elements of the request, in input order.
FirstOutOfRange(k) ==
    LET out == SelectSeq(rr_intervals_ms, LAMBDA x : ~Kept(x))
    IN  SubSeq(out, 1, IF Len(out) < k THEN Len(out) ELSE k)

\* C4: after the count check, the result is INVALID_RR_VALUES exactly when
\* more than half of the elements are out of range (exactly half is not
\* rejected here); the rejection carries the first out-of-range elements in
\* input order, at most 5 of them.
C4_HalfRule ==
    pc = "validated" /\ ~CountFails =>
        /\ ValuesFail <=> Returned /\ Code = Some("INVALID_RR_VALUES")
        /\ ValuesFail =>
               /\ Details.sample_invalid_values = FirstOutOfRange(5)
               /\ Len(Details.sample_invalid_values) <= 5
               /\ Details.invalid_count = NumOut
               /\ Details.total_count = Len(rr_intervals_ms)

\* A rejection with more than 5 out-of-range elements.
C4_Witness ==
    /\ Returned /\ Code = Some("INVALID_RR_VALUES") /\ NumOut > 5
    /\ Len(Details.sample_invalid_values) = 5
\* Exactly 50% out of range is not rejected by the value check.
C4_WitnessExactlyHalf ==
    /\ Returned /\ ~CountFails /\ NumOut > 0
    /\ 2 * NumOut = Len(rr_intervals_ms)
    /\ Code # Some("INVALID_RR_VALUES")

\* C5: after the count check and the 50% check, the result is
\* INSUFFICIENT_VALID_DATA exactly when fewer than min_rr_count elements are
\* in range, whatever the two timestamps are.
C5_PostFilterSufficiency ==
    pc = "validated" /\ ~CountFails /\ ~ValuesFail =>
        /\ SufficiencyFails <=>
               Returned /\ Code = Some("INSUFFICIENT_VALID_DATA")
        /\ SufficiencyFails =>
               Details = [original_count |-> Len(rr_intervals_ms),
                          valid_count |-> NumIn,
                          minimum_required |-> validator.min_rr_count]

\* Under min_rr_count = 40, 40 elements of which one is out of range.
C5_Witness ==
    /\ Returned /\ validator.min_rr_count = min_rr_count
    /\ Len(rr_intervals_ms) = min_rr_count /\ NumOut = 1
    /\ Code = Some("INSUFFICIENT_VALID_DATA")
\* The same rejection with timestamps that cannot be subtracted.
C5_WitnessAnyTimestamps ==
    /\ Returned /\ Code = Some("INSUFFICIENT_VALID_DATA")
    /\ start_timestamp.aware # end_timestamp.aware

C6_WitnessAtBounds ==
    /\ Returned /\ Result.is_valid /\ DurationMs = MaxWindowMs
C6_WitnessTooLong ==
    /\ Returned /\ Code = Some("WINDOW_TOO_LONG")

ErrorCodes ==
    {"INSUFFICIENT_DATA", "EXCESSIVE_DATA", "INVALID_RR_VALUES",
     "INSUFFICIENT_VALID_DATA", "WINDOW_TOO_SHORT", "WINDOW_TOO_LONG"}

\* C7: a valid result carries a cleaned sequence with a length within the
\* count bounds and elements within the value bounds, the duration
\* end - start within the window bounds, and no error code, message or
\* details; an invalid result carries one of the six error codes and
\* neither a cleaned sequence nor a window duration.
C7_Postcondition ==
    Returned =>
        IF Result.is_valid
        THEN /\ Result.cleaned_rr_intervals # None
             /\ LET cleaned == Result.cleaned_rr_intervals[1] IN
                    /\ Len(cleaned) >= validator.min_rr_count
                    /\ Len(cleaned) <= validator.max_rr_count
                    /\ \A i \in 1..Len(cleaned) :
                           /\ cleaned[i] >= validator.min_rr_value_ms
                           /\ cleaned[i] <= validator.max_rr_value_ms
             /\ Result.window_duration_s = Some(DurationMs)
             /\ DurationMs >= MinWindowMs /\ DurationMs <= MaxWindowMs
             /\ Result.error_code = None
             /\ Result.error_message = None
             /\ Result.error_details = None
        ELSE /\ Result.error_code # None
             /\ Result.error_code[1] \in ErrorCodes
             /\ Result.cleaned_rr_intervals = None
             /\ Result.window_duration_s = None

C7_Witness ==
    /\ Returned /\ Result.is_valid
    /\ Len(Result.cleaned_rr_intervals[1]) > 0
    /\ Len(Result.cleaned_rr_intervals[1]) < Len(rr_intervals_ms)
C7_WitnessRejected ==
    /\ Returned /\ ~Result.is_valid

(***************************************************************************)
(* Properties of HRVFeatureExtractor.extract.                              *)
(***************************************************************************)
Extracted == pc \in {"extracted", "serialized"} /\ hrv # None
F == hrv[1]
N == Len(rr_array)

InvalidDomainNames ==
    {name \in {"time_domain", "frequency_domain", "nonlinear"} :
        ~F[name].is_valid}

\* C8: the overall is_valid of extract is the is_valid of the time domain,
\* invalid_domains names exactly the domains whose is_valid is false (each
\* once), and num_intervals is the length of the input.
C8_OverallValidity ==
    Extracted =>
        /\ F.is_valid = F.time_domain.is_valid
        /\ {F.invalid_domains[i] : i \in 1..Len(F.invalid_domains)}
               = InvalidDomainNames
        /\ Len(F.invalid_domains) = Cardinality(InvalidDomainNames)
        /\ F.num_intervals = N

\* Valid overall although the frequency and the nonlinear domain are not.
C8_Witness ==
    /\ Extracted /\ F.is_valid
    /\ ~F.frequency_domain.is_valid /\ ~F.nonlinear.is_valid
\* Invalid overall although the frequency and the nonlinear domain are valid.
C8_WitnessTimeDomainOnly ==
    /\ Extracted /\ ~F.is_valid
    /\ F.frequency_domain.is_valid /\ F.nonlinear.is_valid

Serialized == pc = "serialized" /\ serialized # None
S == serialized[1]

TimeDomainNames ==
    <<"mean_rr", "sdnn", "rmssd", "pnn50", "pnn20", "mean_hr", "std_hr",
      "cv_rr">>
FrequencyDomainNames ==
    <<"lf_power", "hf_power", "lf_hf_ratio", "total_power", "lf_nu",
      "hf_nu">>
NonlinearNames == <<"sample_entropy">>
Range(seq) == {seq[i] : i \in 1..Len(seq)}

\* C9: to_array() has 15 elements and element i is to_dict() at
\* FEATURE_NAMES[i]; FEATURE_NAMES is the 8 time-domain names, the 6
\* frequency-domain names, then sample_entropy; each domain's own to_array
\* and to_dict agree in the same way.
C9_ArrayMatchesNames ==
    Serialized =>
        /\ FEATURE_NAMES =
               TimeDomainNames \o FrequencyDomainNames \o NonlinearNames
        /\ Len(S.array) = 15
        /\ DOMAIN S.dict = Range(FEATURE_NAMES)
        /\ \A i \in 1..15 : S.array[i] = S.dict[FEATURE_NAMES[i]]
        /\ Len(S.td_array) = 8 /\ DOMAIN S.td_dict = Range(TimeDomainNames)
        /\ \A i \in 1..8 : S.td_array[i] = S.td_dict[FEATURE_NAMES[i]]
        /\ Len(S.fd_array) = 6
        /\ DOMAIN S.fd_dict = Range(FrequencyDomainNames)
        /\ \A i \in 1..6 : S.fd_array[i] = S.fd_dict[FEATURE_NAMES[8 + i]]
        /\ Len(S.nl_array) = 1 /\ DOMAIN S.nl_dict = Range(NonlinearNames)
        /\ S.nl_array[1] = S.nl_dict[FEATURE_NAMES[15]]

\* Features of three valid domains with at least 10 different values, so
\* that positions can be told apart.
C9_Witness ==
    /\ Serialized /\ InvalidDomainNames = {}
    /\ Cardinality(Range(S.array)) >= 10

AllNaN(values) == \A i \in 1..Len(values) : values[i] = NaN

\* The start times of the intervals are pairwise different and the span up
\* to the last start holds at least 10 samples: what the resampling needs.
RECURSIVE SumInts(_, _, _)
SumInts(arr, lo, hi) ==
    IF lo > hi THEN 0 ELSE arr[lo] + SumInts(arr, lo + 1, hi)
Resamplable ==
    /\ N >= 4
    /\ \A i, j \in 1..N : i < j => SumInts(rr_array, i, j - 1) # 0
    /\ SumInts(rr_array, 1, N - 1) * extractor.fd_resample_rate
           >= 10 * MsPerSecond
Steady == \A i, j \in 1..N : rr_array[i] = rr_array[j]

\* C10: an input shorter than a domain's minimum gives that domain
\* is_valid = false, NaN in every numeric field and num_intervals = n (the
\* empty input included); an input of exactly the minimum length is
\* computed: the time domain has a mean, the frequency domain has band
\* powers whenever the input can be resampled, the nonlinear domain has
\* entropy 0 for a steady input.
C10_MinimumData ==
    Extracted =>
        /\ N < extractor.td_min_intervals =>
               /\ ~F.time_domain.is_valid
               /\ AllNaN(td_to_array(F.time_domain))
               /\ F.time_domain.num_intervals = N
        /\ N < extractor.fd_min_intervals =>
               /\ ~F.frequency_domain.is_valid
               /\ AllNaN(fd_to_array(F.frequency_domain))
               /\ F.frequency_domain.num_intervals = N
        /\ N < extractor.nl_min_intervals =>
               /\ ~F.nonlinear.is_valid
               /\ F.nonlinear.sample_entropy = NaN
               /\ F.nonlinear.num_intervals = N
        /\ N = extractor.td_min_intervals /\ N >= 1 =>
               /\ F.time_domain.mean_rr # NaN
               /\ F.time_domain.num_intervals = N
        /\ N = extractor.fd_min_intervals /\ Resamplable =>
               /\ F.frequency_domain.is_valid
               /\ F.frequency_domain.lf_power # NaN
        /\ N = extractor.nl_min_intervals /\ N >= 2 /\ Steady =>
               /\ F.nonlinear.is_valid
               /\ F.nonlinear.sample_entropy = Zero

\* Under the defaults, 9 intervals: below all three minimums.
C10_Witness ==
    /\ Extracted /\ extractor = DefaultExtractor
    /\ N = td_min_intervals - 1
    /\ ~F.time_domain.is_valid /\ F.time_domain.mean_rr = NaN
    /\ ~F.frequency_domain.is_valid /\ ~F.nonlinear.is_valid
\* The empty input.
C10_WitnessEmpty ==
    /\ Extracted /\ extractor = DefaultExtractor /\ N = 0
    /\ F.invalid_domains = <<"time_domain", "frequency_domain", "nonlinear">>
\* Under the defaults, exactly 10, 20 and 30 intervals are computed.
C10_WitnessAtTimeMinimum ==
    /\ Extracted /\ extractor = DefaultExtractor
    /\ N = td_min_intervals /\ F.time_domain.is_valid
C10_WitnessAtFrequencyMinimum ==
    /\ Extracted /\ extractor = DefaultExtractor
    /\ N = fd_min_intervals /\ F.frequency_domain.is_valid
C10_WitnessAtNonlinearMinimum ==
    /\ Extracted /\ extractor = DefaultExtractor
    /\ N = nl_min_intervals /\ F.nonlinear.is_valid

\* C11: in each of the three domains, features returned with
\* is_valid = false have NaN in every numeric field.
C11_InvalidIsAllNaN ==
    Extracted =>
        /\ ~F.time_domain.is_valid => AllNaN(td_to_array(F.time_domain))
        /\ ~F.frequency_domain.is_valid =>
               AllNaN(fd_to_array(F.frequency_domain))
        /\ ~F.nonlinear.is_valid => AllNaN(nl_to_array(F.nonlinear))

SteadyZero ==
    /\ F.time_domain.sdnn = Zero /\ F.time_domain.rmssd = Zero
    /\ F.time_domain.pnn50 = Zero /\ F.time_domain.pnn20 = Zero

C16_WitnessOutOfRange ==
    /\ Extracted /\ Steady /\ extractor = DefaultExtractor
    /\ N >= td_min_intervals /\ rr_array[1] = 3001
    /\ SteadyZero /\ ~F.time_domain.is_valid

ValueBoundsOrdered == validator.min_rr_value_ms <= validator.max_rr_value_ms

\* C15: an InputValidator with inconsistent thresholds (a minimum above its
\* maximum) is rejected at construction, so validate() never returns a
\* result computed from such thresholds.
C15_InconsistentRejected ==
    Returned =>
        CountBoundsOrdered /\ ValueBoundsOrdered /\ WindowBoundsOrdered

(***************************************************************************)
(* Properties of the predictor (SpecPredictor).                            *)
(***************************************************************************)
Predicted == pc = "predicted"
P == prediction[1]
Score == model_output[1].ret[1]
FeatureArray == to_array(F)
NonFiniteFeature == \E i \in 1..Len(FeatureArray) : ~isfinite(FeatureArray[i])
IsProbability(x) == x.k = "num" /\ 0 <= x.n /\ x.n <= x.d

\* C13: predict either returns a probability p with 0 <= p <= 1, the model
\* output clamped into [0,1], or raises InferenceError and nothing else; it
\* raises InferenceError when the model is not loaded, when the features
\* are not valid, when the feature vector is not as long as the model's
\* feature count, and when a feature is not finite.
C13_PredictContract ==
    Predicted =>
        /\ \/ /\ P.exc = None
              /\ P.ret # None
              /\ IsProbability(P.ret[1])
              /\ IsProbability(Score) => P.ret[1] = Score
              /\ LtInt(Score, 0) => P.ret[1] = Zero
              /\ GtInt(Score, 1) => P.ret[1] = Num(1, 1)
           \/ /\ P.ret = None
              /\ P.exc = Some(InferenceError)
        /\ ( \/ predictor._model = "none"
             \/ ~F.is_valid
             \/ Len(FeatureArray) # Len(predictor._feature_names)
             \/ NonFiniteFeature ) => P.exc = Some(InferenceError)

\* A trained model overshoots on valid, finite features and 1.0 is returned.
C13_Witness ==
    /\ Predicted
    /\ predictor._model = "trained"
    /\ P.exc = None
    /\ Score = Num(3, 2)
    /\ P.ret = Some(Num(1, 1))

C13_WitnessUndershoot ==
    Predicted /\ P.exc = None /\ LtInt(Score, 0) /\ P.ret = Some(Zero)

C13_WitnessNonFinite ==
    /\ Predicted
    /\ predictor._model = "trained"
    /\ F.is_valid
    /\ Len(FeatureArray) = Len(predictor._feature_names)
    /\ NonFiniteFeature
    /\ P.exc = Some(InferenceError)

C13_WitnessCountMismatch ==
    /\ Predicted
    /\ predictor._model = "trained"
    /\ F.is_valid
    /\ ~NonFiniteFeature
    /\ Len(FeatureArray) # Len(predictor._feature_names)
    /\ P.exc = Some(InferenceError)

C13_WitnessLibraryError ==
    /\ Predicted
    /\ model_output[1].exc = Some(ValueError)
    /\ F.is_valid
    /\ ~NonFiniteFeature
    /\ P.exc = Some(InferenceError)

(***************************************************************************)
(* Properties of the service (SpecService).                                *)
(***************************************************************************)
Responded == pc = "responded"
R == response[1]
Analyzed == Responded /\ R.endpoint = "analyze"
LoadFailed == loading # None /\ loading[1].exc = Some(ModelLoadError)
PassedExtraction == hrv # None /\ F.is_valid
ModelWorks ==
    /\ predictor._model = "trained"
    /\ Len(predictor._feature_names) = Len(FEATURE_NAMES)
    /\ model_output # None => model_output[1].exc = None

\* C12: when extraction yields valid time-domain features and an invalid
\* frequency-domain or nonlinear result, predict on a loaded model returns a
\* probability and the analyze request is answered with success.
C12_DegradedInferenceProceeds ==
    ( /\ Analyzed
      /\ hrv # None
      /\ F.time_domain.is_valid
      /\ ~F.frequency_domain.is_valid \/ ~F.nonlinear.is_valid
      /\ ModelWorks ) =>
        /\ prediction # None
        /\ P.exc = None
        /\ P.ret # None
        /\ R.status_code = HTTP_200_OK

\* C20: after load() raised ModelLoadError, is_loaded is false, every
\* analyze request that passes validation and feature extraction is
\* answered 503 MODEL_UNAVAILABLE, and the health check reports
\* model_loaded = false with status "degraded".
C20_FailedLoadIsUnavailable ==
    LoadFailed =>
        /\ ~is_loaded(predictor)
        /\ (Analyzed /\ PassedExtraction) =>
              /\ R.status_code = HTTP_503_SERVICE_UNAVAILABLE
              /\ R.code = Some("MODEL_UNAVAILABLE")
        /\ (Responded /\ R.endpoint = "health") =>
              /\ R.model_loaded = Some(FALSE)
              /\ R.status = Some("degraded")

(***************************************************************************)
(* Properties of the port (SpecPort).                                      *)
(***************************************************************************)
Ported == pc = "ported"
T == training[1]

\* C19: for every RR array and equal configuration the inference extractor
\* returns the same 15 feature values, the same per-domain is_valid flags,
\* the same invalid_domains and the same num_intervals as the training
\* extractor.
C19_UnmodifiedPort ==
    Ported =>
        /\ to_array(F) = to_array(T)
        /\ F.time_domain.is_valid = T.time_domain.is_valid
        /\ F.frequency_domain.is_valid = T.frequency_domain.is_valid
        /\ F.nonlinear.is_valid = T.nonlinear.is_valid
        /\ F.is_valid = T.is_valid
        /\ F.invalid_domains = T.invalid_domains
        /\ F.num_intervals = T.num_intervals
        /\ F.time_domain.num_intervals = T.time_domain.num_intervals
        /\ F.frequency_domain.num_intervals = T.frequency_domain.num_intervals
        /\ F.nonlinear.num_intervals = T.nonlinear.num_intervals

\* The two extractors differ in cv_rr only.
PortDiffersInCvOnly ==
    Ported => [T EXCEPT !.time_domain.cv_rr = F.time_domain.cv_rr] = F

\* The two extractors agree whenever the mean RR interval is positive.
PortAgreesOnPositiveMean ==
    (Ported /\ GtInt(T.time_domain.mean_rr, 0)) => T = F

(***************************************************************************)
(* Properties of the validity gates (SpecExtractor).                       *)
(***************************************************************************)
TD == F.time_domain
FD == F.frequency_domain
NL == F.nonlinear
TimeDomainComputed == Extracted /\ N >= extractor.td_min_intervals

\* The conditions of the time-domain gate, on the returned fields.
TimeDomainGateFails ==
    IF \E x \in {TD.mean_rr, TD.sdnn, TD.rmssd, TD.pnn50, TD.pnn20,
                 TD.mean_hr, TD.std_hr, TD.cv_rr} : ~isfinite(x)
    THEN TRUE
    ELSE \/ ~GtInt(TD.mean_rr, 0) \/ GtInt(TD.mean_rr, 3000)
         \/ ~GtInt(TD.mean_hr, 0) \/ GtInt(TD.mean_hr, 300)
         \/ Sign(TD.sdnn) < 0
         \/ Sign(TD.rmssd) < 0
         \/ LtInt(TD.pnn50, 0) \/ GtInt(TD.pnn50, 100)

\* The eight values the try block computes before the gate.
TimeDomainComputedValues ==
    td_to_array(
        _extract_time_domain_features(
            N, mean(AsFloats(rr_array)), std(AsFloats(rr_array)),
            diff(AsFloats(rr_array)),
            [i \in 1..N |-> DivF(Num(60000, 1), Num(rr_array[i], 1))]))

\* C21: for an input of at least td_min_intervals intervals, the time domain
\* is invalid if and only if a field is not finite, mean_rr is outside
\* (0, 3000], mean_hr is outside (0, 300], sdnn or rmssd is negative, or
\* pnn50 is outside [0, 100]; the eight computed values are returned
\* unchanged whether or not the gate fails.
C21_TimeDomainGate ==
    TimeDomainComputed =>
        /\ ~TD.is_valid <=> TimeDomainGateFails
        /\ td_to_array(TD) = TimeDomainComputedValues
        /\ TD.num_intervals = N

\* Ten intervals of 4000 ms: the mean is kept and the flag is false.
C21_Witness ==
    /\ TimeDomainComputed
    /\ extractor = DefaultExtractor
    /\ ~TD.is_valid
    /\ TD.mean_rr = Num(4000, 1)
    /\ TD.mean_hr = Num(15, 1)

\* A heart rate above 300 bpm alone fails the gate.
C21_WitnessRateOnly ==
    /\ TimeDomainComputed
    /\ ~TD.is_valid
    /\ TD.mean_rr = Num(150, 1)
    /\ TD.mean_hr = Num(400, 1)

C21_WitnessValid == TimeDomainComputed /\ TD.is_valid /\ N >= 2

(***************************************************************************)
(* Properties of the sample entropy (SpecExtractor).                       *)
(***************************************************************************)
NonlinearComputed == Extracted /\ N >= extractor.nl_min_intervals
Tolerance == ScaleRoot(std(AsFloats(rr_array)), extractor.nl_r_factor)
PositiveTolerance == isfinite(Tolerance) /\ Tolerance # Zero
CountB == _count_matches(rr_array, extractor.nl_m, Tolerance)
CountA == _count_matches(rr_array, extractor.nl_m + 1, Tolerance)
\* -ln(a / b) for counts a, b > 0.
NegLn(a, b) ==
    IF a = b THEN Zero
    ELSE [k |-> "neglog", n |-> a \div GCD(a, b), d |-> b \div GCD(a, b)]

C22_WitnessDefined ==
    /\ NonlinearComputed /\ PositiveTolerance
    /\ CountA > 0 /\ CountA < CountB
    /\ NL.sample_entropy.k = "neglog" /\ NL.is_valid

(***************************************************************************)
(* Properties of the template matching (SpecExtractor).                    *)
(***************************************************************************)
\* The templates of length L at offsets i and j are within r of each other
\* at every position.
TemplatesMatch(x, i, j, L, r) ==
    \A k \in 1..L : WithinTolerance(Abs(x[i + k] - x[j + k]), r)

\* Pairs i < j of offsets in 0..last whose templates match.
MatchingPairs(x, L, r, last) ==
    {p \in (0..last) \X (0..last) : p[1] < p[2] /\ TemplatesMatch(x, p[1], p[2], L, r)}

\* Ordered pairs of distinct offsets in 0..last whose templates match.
OrderedMatchingPairs(x, L, r, last) ==
    {p \in (0..last) \X (0..last) : p[1] # p[2] /\ TemplatesMatch(x, p[1], p[2], L, r)}

TemplateLengths == {extractor.nl_m, extractor.nl_m + 1}
MatchesCounted == Extracted /\ extractor.nl_m >= 1 /\ PositiveTolerance

\* C23 as stated: N - L + 1 templates (every offset i with i + L <= N) and
\* the count is the number of ordered pairs of distinct matching templates.
C23_AllOffsetsOrderedPairs ==
    MatchesCounted =>
        \A L \in TemplateLengths :
            _count_matches(rr_array, L, Tolerance)
                = Cardinality(OrderedMatchingPairs(rr_array, L, Tolerance, N - L))

\* C23 as stated, for the number of templates alone: each pair counted
\* once, over every offset i with i + L <= N.
C23_AllOffsets ==
    MatchesCounted =>
        \A L \in TemplateLengths :
            _count_matches(rr_array, L, Tolerance)
                = Cardinality(MatchingPairs(rr_array, L, Tolerance, N - L))

\* C23 as stated, for the pairs alone: ordered pairs, over the N - L
\* offsets 0..N-L-1.
C23_OrderedPairs ==
    MatchesCounted =>
        \A L \in TemplateLengths :
            _count_matches(rr_array, L, Tolerance)
                = Cardinality(OrderedMatchingPairs(rr_array, L, Tolerance, N - L - 1))

\* C23 (amended): for each template length L in {m, m+1} the templates
\* start at the offsets 0..N-L-1 (N - L templates, the last offset with
\* i + L <= N is not used), and the match count is the number of pairs
\* i < j of these templates, each pair counted once, whose Chebyshev
\* distance is <= r, the bound inclusive and no template compared with
\* itself.
C23_TemplateMatching ==
    MatchesCounted =>
        \A L \in TemplateLengths :
            _count_matches(rr_array, L, Tolerance)
                = Cardinality(MatchingPairs(rr_array, L, Tolerance, N - L - 1))

\* The template at the last offset matches an earlier one and is not
\* counted.
C23_Witness ==
    /\ MatchesCounted
    /\ CountB > 0
    /\ Cardinality(MatchingPairs(rr_array, extractor.nl_m, Tolerance, N - extractor.nl_m)) > CountB

\* A pair of templates at distance exactly r is counted.
C23_WitnessInclusive ==
    /\ MatchesCounted
    /\ \E p \in MatchingPairs(rr_array, extractor.nl_m, Tolerance, N - extractor.nl_m - 1) :
           Square(Tolerance) = Num(Chebyshev(rr_array, p[1], p[2], extractor.nl_m) * Chebyshev(rr_array, p[1], p[2], extractor.nl_m), 1)

\* C29: for every input and every tolerance r > 0 the match count A at
\* length m + 1 is at most the match count B at length m (every pair of
\* offsets that matches at length m + 1 matches at length m), so a defined
\* sample entropy is >= 0 and the nonlinear gate never fails on a finite
\* negative entropy.
C29_MatchCountsDecrease ==
    MatchesCounted =>
        /\ CountA <= CountB
        /\ MatchingPairs(rr_array, extractor.nl_m + 1, Tolerance, N - extractor.nl_m - 2)
               \subseteq MatchingPairs(rr_array, extractor.nl_m, Tolerance, N - extractor.nl_m - 1)
        /\ isfinite(NL.sample_entropy) => Sign(NL.sample_entropy) >= 0
        /\ NonlinearComputed => (NL.is_valid <=> isfinite(NL.sample_entropy))

\* Fewer matches at length m + 1 than at length m, none of them zero: the
\* entropy is positive.
C29_Witness ==
    /\ MatchesCounted /\ NonlinearComputed
    /\ 0 < CountA /\ CountA < CountB
    /\ Sign(NL.sample_entropy) > 0 /\ NL.is_valid

(***************************************************************************)
(* Properties of the frequency domain (SpecExtractor).                     *)
(***************************************************************************)
FrequencyComputed ==
    Extracted /\ N >= extractor.fd_min_intervals /\ Resamplable
BandPowerRefused(x) == IF ~isfinite(x) THEN TRUE ELSE Sign(x) < 0

\* C24: past the length threshold and the 10-sample threshold, the
\* frequency domain is invalid exactly when lf_power or hf_power is
\* non-finite or negative; total_power = lf_power + hf_power, lf_hf_ratio
\* is NaN exactly when hf_power is not > 0, lf_nu and hf_nu are NaN exactly
\* when total_power is not > 0, and a NaN among them leaves the domain
\* valid.
C24_FrequencyGate ==
    FrequencyComputed =>
        /\ ~FD.is_valid <=> (BandPowerRefused(FD.lf_power) \/ BandPowerRefused(FD.hf_power))
        /\ FD.total_power = AddF(FD.lf_power, FD.hf_power)
        /\ isnan(FD.lf_hf_ratio) <=> ~GtInt(FD.hf_power, 0)
        /\ isnan(FD.lf_nu) <=> ~GtInt(FD.total_power, 0)
        /\ isnan(FD.hf_nu) <=> ~GtInt(FD.total_power, 0)
        /\ FD.num_intervals = N

\* No power in either band: the three derived fields are NaN and the
\* domain is valid.
C24_Witness ==
    /\ FrequencyComputed
    /\ FD.lf_power = Zero /\ FD.hf_power = Zero /\ FD.total_power = Zero
    /\ isnan(FD.lf_hf_ratio) /\ isnan(FD.lf_nu) /\ isnan(FD.hf_nu)
    /\ FD.is_valid

\* Power in both bands: every field is defined.
C24_WitnessDefined ==
    /\ FrequencyComputed
    /\ GtInt(FD.lf_power, 0) /\ GtInt(FD.hf_power, 0)
    /\ isfinite(FD.lf_hf_ratio) /\ isfinite(FD.lf_nu) /\ isfinite(FD.hf_nu)
    /\ FD.is_valid

\* The frequency grid of the Welch estimate of the extracted array, and
\* the spectrum drawn for it.
Welch ==
    _compute_psd(extractor,
                 _interpolate_rr(extractor, rr_array, TimeAxis(rr_array)),
                 spectrum[1])
\* Bins at a frequency lo <= f <= hi, lo and hi in hundredths of a hertz.
BinsWithin(freqs, lo, hi) ==
    {i \in 1..Len(freqs) :
        lo * freqs[i].d <= 100 * freqs[i].n /\ 100 * freqs[i].n <= hi * freqs[i].d}
LFBins(freqs) == BinsWithin(freqs, 4, 15)
HFBins(freqs) == BinsWithin(freqs, 15, 40)
\* The trapezoidal integral of the spectrum over the bins in idx.
Integral(psd, freqs, idx) ==
    IF idx = {} THEN Zero
    ELSE trapezoid(Masked(psd, idx), Masked(freqs, idx))

DisjointBands(fd, freqs, lf, hf) ==
    /\ lf \cap hf = {}
    /\ lf = {} => fd.lf_power = Zero
    /\ hf = {} => fd.hf_power = Zero

\* C25 as stated: no frequency bin is used in both integrations, and a
\* band with no bin integrates to 0.
C25_DisjointBands ==
    FrequencyComputed =>
        DisjointBands(FD, Welch.freqs, LFBins(Welch.freqs), HFBins(Welch.freqs))

InclusiveBands(fd, freqs, psd, lf, hf) ==
    /\ fd.lf_power = Integral(psd, freqs, lf)
    /\ fd.hf_power = Integral(psd, freqs, hf)
    /\ \A i \in 1..Len(freqs) : i \in lf \cap hf <=> freqs[i] = Num(15, 100)
    /\ lf = {} => fd.lf_power = Zero
    /\ hf = {} => fd.hf_power = Zero
WelchBands(fd, welch) ==
    InclusiveBands(fd, welch.freqs, welch.psd, LFBins(welch.freqs), HFBins(welch.freqs))

\* C25 (amended): both bands are integrated with both edges inclusive; a
\* bin is used in both integrations exactly when it lies at 0.15 Hz, every
\* other bin is used in at most one of them, and a band with no bin
\* integrates to 0.
C25_InclusiveBands == FrequencyComputed => WelchBands(FD, Welch)

\* A bin at exactly 0.15 Hz, with power on both sides of it.
C25_Witness ==
    /\ FrequencyComputed
    /\ LFBins(Welch.freqs) \cap HFBins(Welch.freqs) # {}
    /\ GtInt(FD.lf_power, 0) /\ GtInt(FD.hf_power, 0)

\* A band without a bin next to a band with bins.
C25_WitnessEmptyBand ==
    /\ FrequencyComputed
    /\ LFBins(Welch.freqs) = {} /\ FD.lf_power = Zero
    /\ HFBins(Welch.freqs) # {}

(***************************************************************************)
(* Properties of the resampling grid (SpecExtractor).                      *)
(***************************************************************************)
\* The interpolation is reached and does not raise.
Resampled ==
    /\ Extracted /\ N >= extractor.fd_min_intervals
    /\ ~InterpRaises(TimeAxis(rr_array))
    /\ TimeAxis(rr_array)[N] >= 0
\* time_sec[-1] in milliseconds, and the grid of the extracted array.
Duration == TimeAxis(rr_array)[N]
Grid == t_uniform(extractor, TimeAxis(rr_array))
GridAtRate(grid, rate) ==
    \A k \in 1..Len(grid) : grid[k] = Num((k - 1) * MsPerSecond, rate)
GridHalfOpen(grid, duration) ==
    \A k \in 1..Len(grid) : grid[k].n < duration * grid[k].d
GridCount(grid, duration, rate) ==
    /\ Len(grid) * MsPerSecond <= duration * rate
    /\ duration * rate < (Len(grid) + 1) * MsPerSecond

\* C26: the grid times are k / fd_resample_rate for k = 0, 1, .., every
\* one of them strictly less than the duration; their number is
\* floor(duration * fd_resample_rate), and fewer than 10 samples make the
\* frequency domain invalid.
C26_GridAtResampleRate ==
    Resampled =>
        /\ GridAtRate(Grid, extractor.fd_resample_rate)
        /\ GridHalfOpen(Grid, Duration)
        /\ GridCount(Grid, Duration, extractor.fd_resample_rate)
        /\ Len(Grid) < MinSamples => AllNaN(fd_to_array(FD)) /\ ~FD.is_valid

\* The part of C26 the code keeps: the number of samples and the
\* threshold of 10 samples.
C26_GridCount ==
    Resampled =>
        /\ GridCount(Grid, Duration, extractor.fd_resample_rate)
        /\ Len(Grid) < MinSamples => AllNaN(fd_to_array(FD)) /\ ~FD.is_valid
        /\ Len(Grid) >= 2 => Grid[1] = Zero /\ Grid[Len(Grid)] = Num(Duration, 1)

\* At least 10 samples and a valid frequency domain.
C26_GridReached == Resampled /\ Len(Grid) >= MinSamples /\ FD.is_valid

(***************************************************************************)
(* Properties of the request pipeline (SpecService).                       *)
(***************************************************************************)
\* The handler got past validate without an exception.
Validated == Analyzed /\ raised = None /\ validation # None
Answer(status_code, code) == R.status_code = status_code /\ R.code = code
FirstFailingStep ==
    IF ~validation[1].is_valid
    THEN /\ Answer(HTTP_422_UNPROCESSABLE_ENTITY, validation[1].error_code)
         /\ hrv = None /\ prediction = None
    ELSE IF hrv = None THEN FALSE
    ELSE IF ~F.is_valid
    THEN /\ Answer(HTTP_422_UNPROCESSABLE_ENTITY, Some("FEATURE_EXTRACTION_FAILED"))
         /\ prediction = None
    ELSE IF ~is_loaded(predictor)
    THEN /\ Answer(HTTP_503_SERVICE_UNAVAILABLE, Some("MODEL_UNAVAILABLE"))
         /\ prediction = None
    ELSE IF prediction = None THEN FALSE
    ELSE IF P.exc = Some(InferenceError)
    THEN Answer(HTTP_500_INTERNAL_SERVER_ERROR, Some("INFERENCE_ERROR"))
    ELSE /\ P.exc = None
         /\ Answer(HTTP_200_OK, None) /\ R.risk_probability = P.ret

\* C27: analyze_arrhythmia runs validation, feature extraction, the
\* model-loaded check and inference in this order, each once, and answers
\* with the first step that fails: 422 with the validator's code, 422
\* FEATURE_EXTRACTION_FAILED, 503 MODEL_UNAVAILABLE, 500 INFERENCE_ERROR;
\* later steps do not run, and _last_inference_at is the time of this
\* request exactly when the answer is a success.
C27_PipelineOrder ==
    /\ Validated => FirstFailingStep
    /\ Analyzed => (last_inference_at = Some("now") <=> R.status_code = HTTP_200_OK)

\* A request that is not answered with success leaves _last_inference_at
\* as it was.
C27_LastInferenceKept ==
    [][(pc = "idle" /\ pc' = "responded" /\ response'[1].status_code # HTTP_200_OK)
          => last_inference_at' = last_inference_at]_vars

\* An invalid request answered 422 while the model is not loaded.
C27_Witness ==
    /\ Validated /\ ~validation[1].is_valid /\ ~is_loaded(predictor)
    /\ R.status_code = HTTP_422_UNPROCESSABLE_ENTITY
    /\ last_inference_at = None

C27_WitnessUnavailable ==
    /\ Validated /\ PassedExtraction /\ ~is_loaded(predictor)
    /\ R.status_code = HTTP_503_SERVICE_UNAVAILABLE
C27_WitnessInferenceError ==
    /\ Validated /\ prediction # None /\ P.exc = Some(InferenceError)
    /\ R.status_code = HTTP_500_INTERNAL_SERVER_ERROR
    /\ last_inference_at = Some("earlier")
C27_WitnessSuccess ==
    /\ Validated /\ R.status_code = HTTP_200_OK /\ last_inference_at = Some("now")
C27_WitnessExtractionFailed ==
    Validated /\ validation[1].is_valid /\ hrv # None /\ ~F.is_valid

\* A request the default validator has accepted.
PassedValidation ==
    Validated /\ validator = DefaultValidator /\ validation[1].is_valid
TimeDomainFinite ==
    \A x \in {TD.mean_rr, TD.sdnn, TD.rmssd, TD.pnn50, TD.pnn20,
              TD.mean_hr, TD.std_hr, TD.cv_rr} : isfinite(x)

\* C30: the cleaned sequence of a request accepted under the default
\* thresholds has valid time-domain features, with mean_rr in [200, 2000],
\* mean_hr in [30, 300] and eight finite fields; the features are valid
\* overall and the answer is never FEATURE_EXTRACTION_FAILED.
C30_ValidatedIsExtractable ==
    PassedValidation =>
        /\ rr_array = validation[1].cleaned_rr_intervals[1]
        /\ N >= min_rr_count /\ N <= max_rr_count
        /\ \A i \in 1..N : min_rr_value_ms <= rr_array[i] /\ rr_array[i] <= max_rr_value_ms
        /\ hrv # None
        /\ TD.is_valid /\ TimeDomainFinite
        /\ ~LtInt(TD.mean_rr, min_rr_value_ms) /\ ~GtInt(TD.mean_rr, max_rr_value_ms)
        /\ ~LtInt(TD.mean_hr, 30) /\ ~GtInt(TD.mean_hr, 300)
        /\ F.is_valid
        /\ R.code # Some("FEATURE_EXTRACTION_FAILED")

\* The shortest intervals allowed: a mean heart rate of exactly 300 bpm.
C30_Witness ==
    /\ PassedValidation /\ F.is_valid
    /\ TD.mean_rr = Num(min_rr_value_ms, 1) /\ TD.mean_hr = Num(300, 1)
    /\ R.code # Some("FEATURE_EXTRACTION_FAILED")

\* An interval filtered out, the others at the longest interval allowed.
C30_WitnessFiltered ==
    /\ PassedValidation /\ F.is_valid
    /\ N = min_rr_count /\ N < Len(rr_intervals_ms)
    /\ TD.mean_rr = Num(max_rr_value_ms, 1) /\ TD.mean_hr = Num(30, 1)

(***************************************************************************)
(* Properties of the domains run in any order (SpecDomains).               *)
(***************************************************************************)
\* What extract returns for the list the array was built from, the
\* domains run in the order time, frequency, nonlinear.
Reference == extract(extractor, rr_intervals_ms, spectrum[1])
SameFeatures(f, ref) ==
    /\ f.time_domain = ref.time_domain
    /\ f.frequency_domain = ref.frequency_domain
    /\ f.nonlinear = ref.nonlinear
    /\ f.num_intervals = ref.num_intervals
    /\ f.is_valid = ref.is_valid
    /\ Range(f.invalid_domains) = Range(ref.invalid_domains)

====
